---- MODULE Spec2Model ----
(***************************************************************************)
(* Macrobie (src/macrobie.py): binding rows and tables, the layered        *)
(* dispatch scan, the CSV persistence of a table, name disambiguation, the *)
(* save and the load of the device directory, the edit session, the run    *)
(* loop with its cleanup, and the capture flows.                           *)
(*                                                                         *)
(* Python values are modelled with their type: a string, an integer and    *)
(* None are different values even when they print alike.                   *)
(***************************************************************************)
EXTENDS Integers, Sequences, FiniteSets, TLC

VARIABLES
  table,      \* the DeviceTable being edited, dispatched and persisted
  lastMatch,  \* what the last DeviceTable.eventMatch call did
  testfile,   \* the file testbinding.csv that roundtrip_test writes and reads
  readback,   \* the table roundtrip_test read back, and how the test ended
  dis,        \* the last call of disambig: its arguments and its result
  deviceDir,         \* the devices directory: file name without .csv -> rows
  loaded_devices,    \* menus: the list of DeviceTable objects
  files_to_destroy,  \* menus: the names whose files the next save deletes
  current_device,    \* menus: position in loaded_devices of the table in hand, 0 for None
  ch,                \* menus: the choice being handled, "done"/"running"/"crashed" after the menu
  saved,             \* what the call of save_config did
  all_devices,  \* the global all_devices: the live input devices, in enumeration order
  got,          \* the last call of DeviceSearch.get: its identity and its result
  autokey,      \* the sink program autokey-run: "ok", "fail" (exits nonzero) or "missing"
  pc,           \* __main__: where the process is
  cur,          \* __main__: the position of the loop in hand (table or device), 0 outside a loop
  cleanup,      \* __main__: the calls of cleanup_devices and how they ended
  trace,        \* __main__: the device operations and eventMatch calls of the run, in order
  loadres,      \* the last load from a file or from the directory, and how it ended
  session,      \* DeviceTable.shell: the choice being handled and the backup
  matched,      \* the last call of BindingRow.eventMatch: row, event and result
  capture,      \* the capture flow in hand, detectDevice or BindingRow.shell: its device and result
  op          \* the operation that produced the current state

menuVars == <<deviceDir, loaded_devices, files_to_destroy, current_device, ch, saved>>
procVars == <<all_devices, got, autokey, pc, cur, cleanup, trace, loadres, session,
              matched, capture>>
vars == <<table, lastMatch, testfile, readback, dis, menuVars, procVars, op>>

-----------------------------------------------------------------------------
(* Bounds of the model *)

\* most rows in one table's binding list
MaxRows == 3

-----------------------------------------------------------------------------
(* Python values *)

PyStr(s) == [t |-> "str", s |-> s, n |-> 0]
PyInt(n) == [t |-> "int", s |-> "", n |-> n]
PyList(s) == [t |-> "list", s |-> s, n |-> 0]
PyNone == [t |-> "none", s |-> "", n |-> 0]

DigitStr(d) ==
  CASE d = 0 -> "0" [] d = 1 -> "1" [] d = 2 -> "2" [] d = 3 -> "3"
    [] d = 4 -> "4" [] d = 5 -> "5" [] d = 6 -> "6" [] d = 7 -> "7"
    [] d = 8 -> "8" [] OTHER -> "9"

RECURSIVE IntStr(_)
\* str(n) of a natural number: its decimal digits
IntStr(n) == IF n < 10 THEN DigitStr(n) ELSE IntStr(n \div 10) \o DigitStr(n % 10)

-----------------------------------------------------------------------------
(* Input events, as evdev.util.categorize hands them to eventMatch *)

\* A key event: keycode is the key's name, or the list of its names when the
\* code has several; scancode is the integer event code.
KeyEvent(keycode, scancode, keystate) ==
  [cls |-> "KeyEvent", keycode |-> keycode, scancode |-> PyInt(scancode),
   keystate |-> keystate]

\* An event of another category (pointer motion here)
RelEvent == [cls |-> "RelEvent", keycode |-> PyNone, scancode |-> PyNone,
             keystate |-> "none"]

KeyStates == {"down", "up", "hold"}

KeyA(ks) == KeyEvent(PyStr("KEY_A"), 30, ks)
KeyB(ks) == KeyEvent(PyStr("KEY_B"), 48, ks)
KeyMute(ks) == KeyEvent(PyList("KEY_MIN_INTERESTING,KEY_MUTE"), 113, ks)

Events == {KeyA(ks) : ks \in KeyStates} \cup {KeyB("down"), KeyMute("down"), RelEvent}

\* An event as read_one returns it: type 1 is EV_KEY, with the key code and the
\* value 0 (up), 1 (down) or 2 (hold); type 2 is EV_REL
InputEvent(type, code, value) == [type |-> type, code |-> code, value |-> value]

\* the names evdev gives the key codes used here
KeyName(code) ==
  CASE code = 30 -> PyStr("KEY_A")
    [] code = 48 -> PyStr("KEY_B")
    [] OTHER -> PyList("KEY_MIN_INTERESTING,KEY_MUTE")

\* evdev.util.categorize
categorize(e) ==
  IF e.type = 1
  THEN KeyEvent(KeyName(e.code), e.code,
                CASE e.value = 0 -> "up" [] e.value = 1 -> "down" [] OTHER -> "hold")
  ELSE RelEvent

-----------------------------------------------------------------------------
(* BindingRow *)

BindingRow_init ==
  [layer |-> PyStr("default"), event_type |-> PyNone, event_data |-> PyNone,
   trigger_type |-> PyNone, trigger_data |-> PyNone]

wKeyDown(r, key) == [r EXCEPT !.event_type = PyStr("keydown"), !.event_data = key]
wScanDown(r, key) == [r EXCEPT !.event_type = PyStr("scandown"), !.event_data = key]
wScript(r, script) ==
  [r EXCEPT !.trigger_type = PyStr("script"), !.trigger_data = PyStr(script)]
wPhrase(r, phrase) ==
  [r EXCEPT !.trigger_type = PyStr("phrase"), !.trigger_data = PyStr(phrase)]
wFolder(r, folder) ==
  [r EXCEPT !.trigger_type = PyStr("folder"), !.trigger_data = PyStr(folder)]
wAssignLayer(r, layer) ==
  [r EXCEPT !.trigger_type = PyStr("assign_layer"), !.trigger_data = PyStr(layer)]
wLayer(r, layer) == [r EXCEPT !.layer = PyStr(layer)]

\* an eventMatch whose scandown branch does not look at the key state
EventMatchAnyState(r, e) ==
  IF e.cls = "KeyEvent"
  THEN IF r.event_type = PyStr("keydown")
       THEN e.keycode = r.event_data /\ e.keystate = "down"
       ELSE IF r.event_type = PyStr("scandown")
            THEN e.scancode = r.event_data
            ELSE FALSE
  ELSE FALSE

\* BindingRow.eventMatch: does the event match this row's pattern
BindingRow_eventMatch(r, e) ==
  IF e.cls = "KeyEvent"
  THEN IF r.event_type = PyStr("keydown")
       THEN e.keycode = r.event_data /\ e.keystate = "down"
       ELSE IF r.event_type = PyStr("scandown")
            THEN e.scancode = r.event_data /\ e.keystate = "down"
            ELSE FALSE
  ELSE FALSE

\* subprocess.run(args, capture_output=True, text=True), without check: the
\* exit status of the program is not looked at; a program that cannot be
\* started raises FileNotFoundError.  st.autokey is the state of autokey-run.
subprocess_run(st, args) ==
  IF st.autokey = "missing" THEN [st EXCEPT !.err = "FileNotFoundError"]
  ELSE [st EXCEPT !.sink = Append(@, args)]

\* an assign_layer trigger that also reports to the sink
TriggerAssignCallsSink(r, st) ==
  IF r.trigger_type = PyStr("phrase")
  THEN subprocess_run(st, <<"autokey-run", "-p", r.trigger_data>>)
  ELSE IF r.trigger_type = PyStr("script")
  THEN subprocess_run(st, <<"autokey-run", "-s", r.trigger_data>>)
  ELSE IF r.trigger_type = PyStr("folder")
  THEN subprocess_run(st, <<"autokey-run", "-f", r.trigger_data>>)
  ELSE IF r.trigger_type = PyStr("assign_layer")
  THEN subprocess_run([st EXCEPT !.layer = r.trigger_data],
                      <<"autokey-run", "-p", r.trigger_data>>)
  ELSE st

\* BindingRow.trigger: st.layer is the parent table's active layer, st.sink the
\* autokey-run invocations made so far
BindingRow_trigger(r, st) ==
  IF r.trigger_type = PyStr("phrase")
  THEN subprocess_run(st, <<"autokey-run", "-p", r.trigger_data>>)
  ELSE IF r.trigger_type = PyStr("script")
  THEN subprocess_run(st, <<"autokey-run", "-s", r.trigger_data>>)
  ELSE IF r.trigger_type = PyStr("folder")
  THEN subprocess_run(st, <<"autokey-run", "-f", r.trigger_data>>)
  ELSE IF r.trigger_type = PyStr("assign_layer")
  THEN [st EXCEPT !.layer = r.trigger_data]
  ELSE st

BindingRow_copy(r) ==
  [layer |-> r.layer, event_type |-> r.event_type, event_data |-> r.event_data,
   trigger_type |-> r.trigger_type, trigger_data |-> r.trigger_data]

-----------------------------------------------------------------------------
(* DeviceSearch and DeviceTable *)

DeviceSearch_init ==
  [version |-> PyStr("version-1"), search_type |-> PyStr("name"),
   name |-> PyNone, phys |-> PyNone]

DeviceTable_init ==
  [filename |-> "new-device", search |-> DeviceSearch_init,
   layer |-> PyStr("default"), binding |-> <<>>]

\* an evdev.InputDevice of all_devices: its name and physical address, whether
\* this process holds its grab, whether its handle is closed, and the events
\* buffered for read_one
InputDevice(name, phys) ==
  [name |-> name, phys |-> phys, grabbed |-> FALSE, closed |-> FALSE,
   queue |-> <<>>]

\* s.endswith(suffix)
EndsWith(s, suffix) ==
  /\ Len(suffix) <= Len(s)
  /\ SubSeq(s, Len(s) - Len(suffix) + 1, Len(s)) = suffix

RECURSIVE LastSegmentFrom(_, _)
\* s.split("/")[-1]: what follows the last "/" at or before position i, the
\* whole of s when there is none
LastSegmentFrom(s, i) ==
  IF i = 0 THEN s
  ELSE IF SubSeq(s, i, i) = "/" THEN SubSeq(s, i + 1, Len(s))
  ELSE LastSegmentFrom(s, i - 1)


\* the test of one device n in the loop of get that search_type selects
GetTest(d, n) ==
  IF d.search_type = PyStr("name")
  THEN PyStr(n.name) = d.name /\ EndsWith(n.phys, LastSegmentFrom(d.phys.s, Len(d.phys.s)))
  ELSE IF d.search_type = PyStr("phys")
  THEN PyStr(n.phys) = d.phys
  ELSE PyStr(n.name) = d.name /\ PyStr(n.phys) = d.phys

\* a get whose loops return the last device that passes the test
DeviceSearch_getLast(d, devs) ==
  LET hits == {i \in 1..Len(devs) : GetTest(d, devs[i])}
  IN IF d.search_type = PyStr("name") /\ d.phys.t # "str"
     THEN [err |-> "AttributeError", idx |-> 0]
     ELSE IF hits = {} THEN [err |-> "", idx |-> 0]
     ELSE [err |-> "", idx |-> CHOOSE i \in hits : \A j \in hits : j <= i]

\* DeviceSearch.get over the list devs: the position of the device returned, 0
\* for None.  self.phys.split raises AttributeError when phys is None.
DeviceSearch_get(d, devs) ==
  LET hits == {i \in 1..Len(devs) : GetTest(d, devs[i])}
  IN IF d.search_type = PyStr("name") /\ d.phys.t # "str"
     THEN [err |-> "AttributeError", idx |-> 0]
     ELSE IF hits = {} THEN [err |-> "", idx |-> 0]
     ELSE [err |-> "", idx |-> CHOOSE i \in hits : \A j \in hits : i <= j]

\* the state of one scan: the active layer, the sink calls, the rows fired
\* (ans), and a log of every row test (seen: the active layer the row at that
\* position was tested against) and of every trigger call (trig)
ScanStart(t) ==
  [layer |-> t.layer, sink |-> <<>>, ans |-> <<>>, seen |-> <<>>, trig |-> <<>>,
   err |-> "", autokey |-> autokey]

\* str(n) of a BindingRow concatenates its five fields to str literals: a
\* field that is not a str raises TypeError
RowStrRaises(n) ==
  \/ n.layer.t # "str" \/ n.event_type.t # "str" \/ n.event_data.t # "str"
  \/ n.trigger_type.t # "str" \/ n.trigger_data.t # "str"

\* BindingRow.shell once the key event is captured: a key with one name
\* makes a keydown row, any other a scandown row holding the integer scan
\* code; print(self) then raises TypeError for a field that is not a str
BindingRow_shell(r, key, trigger_type, trigger_data) ==
  LET r1 == IF key.keycode.t = "str" THEN wKeyDown(r, key.keycode)
            ELSE wScanDown(r, key.scancode)
      r2 == [r1 EXCEPT !.trigger_type = PyStr(trigger_type),
                       !.trigger_data = PyStr(trigger_data)]
  IN [row |-> r2, err |-> IF RowStrRaises(r2) THEN "TypeError" ELSE ""]

\* lines 477-479: print(n), n.trigger(self), ans.append(n) for the row n at
\* position i
FireRow(st, n, i) ==
  IF RowStrRaises(n) THEN [st EXCEPT !.err = "TypeError"]
  ELSE LET st2 == BindingRow_trigger(n, [st EXCEPT !.trig = Append(@, i)])
       IN IF st2.err # "" THEN st2 ELSE [st2 EXCEPT !.ans = Append(@, n)]

\* a scan that stops firing after the first row fired
ScanRowFirstMatch(st, n, e, i) ==
  LET st1 == [st EXCEPT !.seen = Append(@, st.layer)]
  IN IF n.layer = st.layer /\ BindingRow_eventMatch(n, e) /\ st.ans = <<>>
     THEN FireRow(st1, n, i)
     ELSE st1

\* a scan that tests every row against the layer the scan started in
ScanRowSnapshot(st, n, e, i) ==
  LET st1 == [st EXCEPT !.seen = Append(@, st.layer)]
      layer0 == IF st.seen = <<>> THEN st.layer ELSE st.seen[1]
  IN IF n.layer = layer0 /\ BindingRow_eventMatch(n, e)
     THEN FireRow(st1, n, i)
     ELSE st1

\* a scan that fires every row whose pattern matches, whatever its layer
ScanRowAnyLayer(st, n, e, i) ==
  LET st1 == [st EXCEPT !.seen = Append(@, st.layer)]
  IN IF BindingRow_eventMatch(n, e)
     THEN FireRow(st1, n, i)
     ELSE st1

\* the body of eventMatch's loop for the row n at position i
ScanRow(st, n, e, i) ==
  LET st1 == [st EXCEPT !.seen = Append(@, st.layer)]
  IN IF n.layer = st.layer
     THEN IF BindingRow_eventMatch(n, e)
          THEN FireRow(st1, n, i)
          ELSE st1
     ELSE st1

RECURSIVE Scan(_, _, _, _)
Scan(binding, i, e, st) ==
  IF i > Len(binding) \/ st.err # "" THEN st
  ELSE Scan(binding, i + 1, e, ScanRow(st, binding[i], e, i))

\* DeviceTable.eventMatch
DeviceTable_eventMatch(t, e) == Scan(t.binding, 1, e, ScanStart(t))

-----------------------------------------------------------------------------
(* CSV persistence of one table *)

\* what csv.writer writes for a field: a str as it is, None as the empty
\* string, anything else through str(); csv.reader gives every field back as
\* a str (quoting is undone by the reader, so a str field comes back equal)
CsvField(v) ==
  CASE v.t = "str" -> v.s
    [] v.t = "int" -> IntStr(v.n)
    [] v.t = "none" -> ""
    [] OTHER -> "[" \o v.s \o "]"

DeviceSearch_wRow(d) == <<PyStr("device"), d.version, d.search_type, d.name, d.phys>>

BindingRow_wRow(r) ==
  <<PyStr("binding"), r.layer, r.event_type, r.event_data, r.trigger_type,
    r.trigger_data>>

\* one csv_writer.writerow
WriteRow(fields) == [k \in 1..Len(fields) |-> CsvField(fields[k])]

\* DeviceTable.wCsv: the rows of the file written
DeviceTable_wCsv(t) ==
  <<WriteRow(DeviceSearch_wRow(t.search))>>
    \o [k \in 1..Len(t.binding) |-> WriteRow(BindingRow_wRow(t.binding[k]))]

\* DeviceSearch.rRow on a row whose first field is "device"
DeviceSearch_rRow(row) ==
  [version |-> PyStr(row[2]), search_type |-> PyStr(row[3]),
   name |-> PyStr(row[4]), phys |-> PyStr(row[5])]

\* BindingRow.rRow
BindingRow_rRow(v) ==
  [layer |-> PyStr(v[2]), event_type |-> PyStr(v[3]), event_data |-> PyStr(v[4]),
   trigger_type |-> PyStr(v[5]), trigger_data |-> PyStr(v[6])]

\* the body of rCsv's loop: rd.t is the table, rd.err the exception raised (""
\* for none), rd.bound whether the local ans has been assigned
ReadRow(rd, row) ==
  IF rd.err # "" \/ Len(row) = 0 THEN rd
  ELSE IF row[1] = "binding"
  THEN IF Len(row) < 6 THEN [rd EXCEPT !.err = "IndexError"]
       ELSE [rd EXCEPT !.t.binding = Append(@, BindingRow_rRow(row)),
                       !.bound = TRUE]
  ELSE IF row[1] = "device"
  THEN IF Len(row) < 5 THEN [rd EXCEPT !.err = "IndexError"]
       ELSE [rd EXCEPT !.t.search = DeviceSearch_rRow(row), !.bound = TRUE]
  ELSE rd

RECURSIVE ReadRows(_, _, _)
ReadRows(rows, i, rd) ==
  IF i > Len(rows) THEN rd ELSE ReadRows(rows, i + 1, ReadRow(rd, rows[i]))

\* DeviceTable.rCsv on the table object t, from the file with these rows whose
\* name without extension is stem.  The final "return ans" reads a local that
\* only a binding or device row assigns.
DeviceTable_rCsv(t, rows, stem) ==
  LET rd == ReadRows(rows, 1,
              [t |-> [t EXCEPT !.filename = stem, !.binding = <<>>],
               err |-> "", bound |-> FALSE])
  IN IF rd.err = "" /\ ~rd.bound THEN [rd EXCEPT !.err = "UnboundLocalError"]
     ELSE rd

\* str(d) of a DeviceSearch concatenates its fields to str literals: a field
\* that is not a str raises TypeError
SearchStrRaises(d) ==
  \/ d.version.t # "str" \/ d.search_type.t # "str" \/ d.name.t # "str"
  \/ d.phys.t # "str"

\* how the comparison of roundtrip_test (lines 515-525) ends for the table t
\* and the table a read back
RoundtripOutcome(t, a) ==
  LET searchDiffers ==
        ~(a.search.search_type = t.search.search_type
            /\ a.search.phys = t.search.phys /\ a.search.name = t.search.name)
      differ == {i \in 1..Len(a.binding) : a.binding[i] # t.binding[i]}
  IN IF searchDiffers /\ SearchStrRaises(t.search)
     THEN "TypeError"
     ELSE IF \E i \in differ : RowStrRaises(t.binding[i])
     THEN "TypeError"
     ELSE IF searchDiffers \/ differ # {} THEN "mismatch" ELSE "same"

-----------------------------------------------------------------------------
(* disambig *)

\* range(2, 100)
DisambigFirst == 2
DisambigStop == 100

\* the list with the first element equal to x taken out (list.remove, when x
\* is in the list)
RemoveFirst(seq, x) ==
  LET i == CHOOSE k \in 1..Len(seq) : seq[k] = x /\ \A j \in 1..(k - 1) : seq[j] # x
  IN [k \in 1..(Len(seq) - 1) |-> IF k < i THEN seq[k] ELSE seq[k + 1]]

SeqSet(seq) == {seq[k] : k \in 1..Len(seq)}

InSeq(seq, x) == \E k \in 1..Len(seq) : seq[k] = x

\* dtab of disambig: want, then want-2 ... want-99
Dtab(want) ==
  <<want>> \o [k \in 1..(DisambigStop - DisambigFirst) |->
                want \o "-" \o IntStr(k + DisambigFirst - 1)]

RECURSIVE DtabRemove(_, _, _)
\* the loop "for n in have: dtab.remove(n)": list.remove raises ValueError
\* for a name that is not in dtab
DtabRemove(dtab, have, i) ==
  IF i > Len(have) THEN [err |-> "", dtab |-> dtab]
  ELSE IF ~InSeq(dtab, have[i]) THEN [err |-> "ValueError", dtab |-> dtab]
  ELSE DtabRemove(RemoveFirst(dtab, have[i]), have, i + 1)

\* disambig(want, have): the name returned, or the exception raised
disambig(want, have) ==
  LET r == DtabRemove(Dtab(want), have, 1)
  IN IF r.err # "" THEN [err |-> r.err, name |-> ""]
     ELSE IF r.dtab = <<>> THEN [err |-> "IndexError", name |-> ""]
     ELSE [err |-> "", name |-> r.dtab[1]]

-----------------------------------------------------------------------------
(* save_config *)

DirWrite(dir, name, rows) ==
  [n \in DOMAIN dir \cup {name} |-> IF n = name THEN rows ELSE dir[n]]

DirRemove(dir, name) == [n \in DOMAIN dir \ {name} |-> dir[n]]

\* lines 622-623: the name the table d is saved under
SaveName(d, files_to_add) ==
  IF InSeq(files_to_add, d.filename)
  THEN disambig(d.filename, files_to_add)
  ELSE [err |-> "", name |-> d.filename]

\* lines 624-625: the deletion list once the table is saved under name
Keep(destroy, name) ==
  IF InSeq(destroy, name) THEN RemoveFirst(destroy, name) ELSE destroy

RECURSIVE WritePhase(_, _)
\* the first loop of save_config from the table at position i on. sv.devices
\* is the list of tables (a rename changes the table in it), sv.destroy the
\* deletion list, sv.dir the directory, sv.log the file operations made
WritePhase(sv, i) ==
  IF i > Len(sv.devices) THEN sv
  ELSE LET d == sv.devices[i]
           r == SaveName(d, sv.files_to_add)
       IN IF r.err # "" THEN [sv EXCEPT !.err = r.err]
          ELSE LET d2 == [d EXCEPT !.filename = r.name]
               IN WritePhase(
                    [sv EXCEPT !.devices[i] = d2,
                               !.destroy = Keep(sv.destroy, r.name),
                               !.files_to_add = Append(@, r.name),
                               !.dir = DirWrite(@, r.name, DeviceTable_wCsv(d2)),
                               !.log = Append(@, <<"write", r.name>>)],
                    i + 1)

RECURSIVE DeletePhase(_, _)
\* the second loop: os.remove raises FileNotFoundError for a missing file
DeletePhase(sv, i) ==
  IF sv.err # "" \/ i > Len(sv.destroy) THEN sv
  ELSE LET name == sv.destroy[i]
       IN IF name \notin DOMAIN sv.dir THEN [sv EXCEPT !.err = "FileNotFoundError"]
          ELSE DeletePhase([sv EXCEPT !.dir = DirRemove(@, name),
                                      !.log = Append(@, <<"delete", name>>)],
                           i + 1)

\* save_config(devices, files_to_destroy) on the directory dir
save_config(devices, destroy, dir) ==
  DeletePhase(
    WritePhase([devices |-> devices, destroy |-> destroy, files_to_add |-> <<>>,
                dir |-> dir, log |-> <<>>, err |-> ""], 1),
    1)

-----------------------------------------------------------------------------
(* load_config *)

RECURSIVE LoadFrom(_, _, _, _)
\* the loop of load_config from the file at position i of the glob on: a new
\* table for each file, read with rCsv; nothing catches what rCsv raises
LoadFrom(dir, files, i, ans) ==
  IF i > Len(files) THEN [err |-> "", ans |-> ans]
  ELSE LET rd == DeviceTable_rCsv(DeviceTable_init, dir[files[i]], files[i])
       IN IF rd.err # "" THEN [err |-> rd.err, ans |-> ans]
          ELSE LoadFrom(dir, files, i + 1, Append(ans, rd.t))

\* load_config over the directory dir, whose glob lists the files in this order
load_config(dir, files) == LoadFrom(dir, files, 1, <<>>)

-----------------------------------------------------------------------------
(* State machine *)

NoMatch == [ev |-> RelEvent, layer0 |-> PyStr("default"), sink |-> <<>>,
            ans |-> <<>>, seen |-> <<>>, trig |-> <<>>, err |-> ""]

NoFile == [exists |-> FALSE, rows |-> <<>>]
NoReadback == [t |-> DeviceTable_init, outcome |-> "none"]
NoCall == [want |-> "", have |-> <<>>, err |-> "", name |-> ""]
EmptyDir == [n \in {} |-> <<>>]
NoSave == [called |-> FALSE, err |-> "", log |-> <<>>, pending |-> <<>>]
NoRowMatch == [called |-> FALSE, row |-> BindingRow_init, ev |-> RelEvent,
               result |-> FALSE]
NoGet == [called |-> FALSE, search |-> DeviceSearch_init, err |-> "", idx |-> 0]
\* calls and done count the calls of cleanup_devices started and returned; cut
\* is set when an interrupt arrives in the handler or in cleanup_devices;
\* raised is the exception that left menus ("" for a return)
NoCleanup == [calls |-> 0, done |-> 0, cut |-> FALSE, raised |-> "none"]
NoLoad == [called |-> FALSE, files |-> <<>>, rows |-> <<>>, t |-> DeviceTable_init,
           err |-> ""]
\* ch and backup are the locals of DeviceTable.shell; start is the binding
\* list the session began with and ops the edits made in it, <<"add", row>>
\* and <<"remove", position>>
NoSession == [ch |-> "none", backup |-> <<>>, start |-> <<>>, ops |-> <<>>]
\* flow is the function running or last run, dev the position in all_devices
\* of the device it was called on (shell) or it detected (detectDevice), 0
\* for none, key the event shell captured, returned whether it has returned
NoCapture == [flow |-> "none", dev |-> 0, key |-> <<>>, returned |-> FALSE]

\* outside the specifications of the process, of the loads and of the edit
\* session: no live device, autokey-run installed and working
InitProc ==
  /\ all_devices = <<>>
  /\ got = NoGet
  /\ autokey = "ok"
  /\ pc = "menus"
  /\ cur = 0
  /\ cleanup = NoCleanup
  /\ trace = <<>>
  /\ loadres = NoLoad
  /\ session = NoSession
  /\ matched = NoRowMatch
  /\ capture = NoCapture

Init ==
  /\ table = DeviceTable_init
  /\ lastMatch = NoMatch
  /\ testfile = NoFile
  /\ readback = NoReadback
  /\ dis = NoCall
  /\ deviceDir = EmptyDir
  /\ loaded_devices = <<>>
  /\ files_to_destroy = <<>>
  /\ current_device = 0
  /\ ch = "main"
  /\ saved = NoSave
  /\ InitProc
  /\ op = "init"

\* the rows the dispatch specification builds tables from: rows as the binding
\* wizard makes them (a key name) and as rCsv reads them (every field a str)
DispatchRows ==
  {wLayer(wKeyDown(tr, PyStr("KEY_A")), l) :
     l \in {"default", "work"},
     tr \in {wPhrase(BindingRow_init, "P"),
             wAssignLayer(BindingRow_init, "work"),
             wAssignLayer(BindingRow_init, "default")}}
  \cup
  {wKeyDown(tr, PyStr("KEY_A")) :
     tr \in {wScript(BindingRow_init, "S"), wFolder(BindingRow_init, "F")}}
  \cup
  {wKeyDown(wPhrase(BindingRow_init, "P"), PyStr("KEY_B")),
   wLayer(wKeyDown(wAssignLayer(BindingRow_init, "default"), PyStr("KEY_B")), "work"),
   wScanDown(wPhrase(BindingRow_init, "P"), PyStr("30"))}

\* rows of the tables of the menu, of the run and of the edit session
PhraseRow == wKeyDown(wPhrase(BindingRow_init, "P"), PyStr("KEY_A"))
ScriptRow == wKeyDown(wScript(BindingRow_init, "S"), PyStr("KEY_A"))
LayerRow == wKeyDown(wAssignLayer(BindingRow_init, "work"), PyStr("KEY_A"))

\* self.binding.append(ans): a row joins the end of the table
AppendBinding(row) ==
  /\ Len(table.binding) < MaxRows
  /\ table' = [table EXCEPT !.binding = Append(@, row)]
  /\ lastMatch' = NoMatch
  /\ op' = "append"
  /\ UNCHANGED <<testfile, readback, dis, menuVars, procVars>>

\* the run loop hands one categorized event to the table
EventMatch(e) ==
  LET r == DeviceTable_eventMatch(table, e)
  IN /\ table' = [table EXCEPT !.layer = r.layer]
     /\ lastMatch' = [ev |-> e, layer0 |-> table.layer, sink |-> r.sink,
                      ans |-> r.ans, seen |-> r.seen, trig |-> r.trig,
                      err |-> r.err]
     /\ op' = "eventMatch"
     /\ UNCHANGED <<testfile, readback, dis, menuVars, procVars>>

NextDispatch ==
  \/ \E row \in DispatchRows : AppendBinding(row)
  \/ \E e \in Events : EventMatch(e)

SpecDispatch == Init /\ [][NextDispatch]_vars

-----------------------------------------------------------------------------
(* Persistence of the table: roundtrip_test, and loads from the file *)

\* the rows the persistence specification builds tables from: a key row that
\* switches the layer and a scan-code row as wScanDown stores it
PersistRows ==
  {wKeyDown(wAssignLayer(BindingRow_init, "work"), PyStr("KEY_A")),
   wScanDown(wPhrase(BindingRow_init, "P"), PyInt(113))}

SearchTypes == {"name", "phys", "both"}

\* the device the user presses a key on
LiveDevices == {[name |-> "Foo", phys |-> "usb-0000:00:14.0-2/input0"]}

\* DeviceSearch.shell: the identity of the table is taken from a live device
SearchShell(search_type, dev) ==
  /\ op = "init"
  /\ table' = [table EXCEPT !.search.name = PyStr(dev.name),
                            !.search.phys = PyStr(dev.phys),
                            !.search.search_type = PyStr(search_type)]
  /\ op' = "search_shell"
  /\ UNCHANGED <<lastMatch, testfile, readback, dis, menuVars, procVars>>

\* DeviceTable.roundtrip_test: write the table, read it into a new table,
\* compare
RoundtripTest ==
  LET rows == DeviceTable_wCsv(table)
      rd == DeviceTable_rCsv(DeviceTable_init, rows, "testbinding")
  IN /\ testfile' = [exists |-> TRUE, rows |-> rows]
     /\ readback' = [t |-> rd.t,
                     outcome |-> IF rd.err # "" THEN rd.err
                                 ELSE RoundtripOutcome(table, rd.t)]
     /\ op' = "roundtrip_test"
     /\ UNCHANGED <<table, lastMatch, dis, menuVars, procVars>>

\* rCsv called on the table object itself: a reload
RCsv ==
  /\ testfile.exists
  /\ LET rd == DeviceTable_rCsv(table, testfile.rows, "testbinding")
     IN /\ rd.err = ""
        /\ table' = rd.t
  /\ lastMatch' = NoMatch
  /\ op' = "rCsv"
  /\ UNCHANGED <<testfile, readback, dis, menuVars, procVars>>

\* the body of load_config's loop: a new table, loaded from the file
LoadNew ==
  /\ testfile.exists
  /\ LET rd == DeviceTable_rCsv(DeviceTable_init, testfile.rows, "testbinding")
     IN /\ rd.err = ""
        /\ table' = rd.t
  /\ lastMatch' = NoMatch
  /\ op' = "load"
  /\ UNCHANGED <<testfile, readback, dis, menuVars, procVars>>

NextPersist ==
  \/ \E st \in SearchTypes, dev \in LiveDevices : SearchShell(st, dev)
  \/ \E row \in PersistRows : AppendBinding(row)
  \/ EventMatch(KeyA("down"))
  \/ RoundtripTest
  \/ RCsv
  \/ LoadNew

SpecPersist == Init /\ [][NextPersist]_vars

-----------------------------------------------------------------------------
(* disambig under any wanted name and any list of existing names *)

\* most names in the list of existing names
MaxHave == 3

HaveLists == UNION {[1..n -> {"X", "X-2", "X-3", "Y"}] : n \in 0..MaxHave}

CallDisambig(want, have) ==
  LET r == disambig(want, have)
  IN /\ dis' = [want |-> want, have |-> have, err |-> r.err, name |-> r.name]
     /\ op' = "disambig"
     /\ UNCHANGED <<table, lastMatch, testfile, readback, menuVars, procVars>>

NextDisambig == \E want \in {"X", "Y"}, have \in HaveLists : CallDisambig(want, have)

SpecDisambig == Init /\ [][NextDisambig]_vars

-----------------------------------------------------------------------------
(* BindingRow.eventMatch under any row and any event *)

\* the event patterns a row can hold: set by the wizard (a key name, an
\* integer scan code), read from a file (text), or not set
MatchRows ==
  {[BindingRow_init EXCEPT !.event_type = et, !.event_data = d] :
     et \in {PyStr("keydown"), PyStr("scandown"), PyStr("keyup"), PyNone},
     d \in {PyStr("KEY_A"), PyStr("KEY_B"), PyStr("30"), PyInt(30), PyInt(113),
            PyNone}}

\* key events of three keys in every state, and events of other categories
MatchEvents ==
  {KeyA(ks) : ks \in KeyStates} \cup {KeyB(ks) : ks \in KeyStates}
    \cup {KeyMute(ks) : ks \in KeyStates}
    \cup {RelEvent, [RelEvent EXCEPT !.cls = "SynEvent"]}

InitRowMatch ==
  /\ table = DeviceTable_init
  /\ lastMatch = NoMatch
  /\ testfile = NoFile
  /\ readback = NoReadback
  /\ dis = NoCall
  /\ deviceDir = EmptyDir
  /\ loaded_devices = <<>>
  /\ files_to_destroy = <<>>
  /\ current_device = 0
  /\ ch = "main"
  /\ saved = NoSave
  /\ all_devices = <<>>
  /\ got = NoGet
  /\ autokey = "ok"
  /\ pc = "menus"
  /\ cur = 0
  /\ cleanup = NoCleanup
  /\ trace = <<>>
  /\ loadres = NoLoad
  /\ session = NoSession
  /\ matched \in {[NoRowMatch EXCEPT !.row = r, !.ev = e] :
                    r \in MatchRows, e \in MatchEvents}
  /\ capture = NoCapture
  /\ op = "init"

\* a call of eventMatch of the row on the event
RowEventMatch ==
  /\ ~matched.called
  /\ matched' = [matched EXCEPT !.called = TRUE,
                                !.result = BindingRow_eventMatch(matched.row, matched.ev)]
  /\ op' = "row_eventMatch"
  /\ UNCHANGED <<table, lastMatch, testfile, readback, dis, menuVars, all_devices,
                 got, autokey, pc, cur, cleanup, trace, loadres, session, capture>>

SpecRowMatch == InitRowMatch /\ [][RowEventMatch]_vars

-----------------------------------------------------------------------------
(* DeviceSearch.get under any stored identity and any list of live devices *)

\* most devices in all_devices
MaxLive == 2

\* the identities a file or a capture stores
StoredSearches ==
  {[version |-> PyStr("version-1"), search_type |-> PyStr(st),
    name |-> PyStr(n), phys |-> PyStr(p)] :
     st \in SearchTypes,
     n \in {"Foo", "Bar"},
     p \in {"x/usb1/1-2:1.0", "usb1/1-3:1.0", "usb1/", ""}}

\* the devices evdev.list_devices can enumerate
Enumerable ==
  {InputDevice("Foo", "/dev/input/event3 usb1/1-2:1.0"),
   InputDevice("Foo", "usb1/1-3:1.0"),
   InputDevice("Foo", "x/usb1/1-2:1.0"),
   InputDevice("Bar", "x/usb1/1-2:1.0")}

LiveLists == UNION {[1..n -> Enumerable] : n \in 0..MaxLive}

\* line 751 has enumerated the live devices, and an identity is stored
InitGet ==
  /\ table = DeviceTable_init
  /\ lastMatch = NoMatch
  /\ testfile = NoFile
  /\ readback = NoReadback
  /\ dis = NoCall
  /\ deviceDir = EmptyDir
  /\ loaded_devices = <<>>
  /\ files_to_destroy = <<>>
  /\ current_device = 0
  /\ ch = "main"
  /\ saved = NoSave
  /\ all_devices \in LiveLists
  /\ got \in {[NoGet EXCEPT !.search = d] : d \in StoredSearches}
  /\ autokey = "ok"
  /\ pc = "menus"
  /\ cur = 0
  /\ cleanup = NoCleanup
  /\ trace = <<>>
  /\ loadres = NoLoad
  /\ session = NoSession
  /\ matched = NoRowMatch
  /\ capture = NoCapture
  /\ op = "init"

\* a call of get on the stored identity
Get ==
  LET r == DeviceSearch_get(got.search, all_devices)
  IN /\ ~got.called
     /\ got' = [got EXCEPT !.called = TRUE, !.err = r.err, !.idx = r.idx]
     /\ op' = "get"
     /\ UNCHANGED <<table, lastMatch, testfile, readback, dis, menuVars, all_devices,
                    autokey, pc, cur, cleanup, trace, loadres, session, matched,
                    capture>>

SpecGet == InitGet /\ [][Get]_vars

-----------------------------------------------------------------------------
(* The menu: add device, remove device, save *)

\* most tables in loaded_devices, and most names in files_to_destroy
MaxDevices == 3
MaxDestroy == 2

\* the table of a device identified by name, with no binding yet
NewDeviceTable(dev, filename) ==
  [DeviceTable_init EXCEPT !.search.name = PyStr(dev.name),
                           !.search.phys = PyStr(dev.phys),
                           !.search.search_type = PyStr("name"),
                           !.filename = filename]

StartDir(files) ==
  LET dev == CHOOSE d \in LiveDevices : TRUE
  IN [n \in SeqSet(files) |-> DeviceTable_wCsv(NewDeviceTable(dev, n))]

InitMenu ==
  /\ table = DeviceTable_init
  /\ lastMatch = NoMatch
  /\ testfile = NoFile
  /\ readback = NoReadback
  /\ dis = NoCall
  /\ \E files \in {<<>>, <<"A">>, <<"B">>, <<"A", "B">>, <<"B", "A">>} :
       /\ deviceDir = StartDir(files)
       /\ loaded_devices = load_config(StartDir(files), files).ans
       /\ loadres = [NoLoad EXCEPT !.called = TRUE, !.files = files]
  /\ files_to_destroy = <<>>
  /\ current_device = 0
  /\ ch = "main"
  /\ saved = NoSave
  /\ all_devices = <<>>
  /\ got = NoGet
  /\ autokey = "ok"
  /\ pc = "menus"
  /\ cur = 0
  /\ cleanup = NoCleanup
  /\ trace = <<>>
  /\ session = NoSession
  /\ matched = NoRowMatch
  /\ capture = NoCapture
  /\ op = "init"

\* lines 661-662: every pass of the menu loop runs roundtrip_test on every
\* table, which leaves the file of the last one in testbinding.csv
MenuRoundtrip ==
  IF loaded_devices = <<>> THEN UNCHANGED <<testfile, readback>>
  ELSE LET t == loaded_devices[Len(loaded_devices)]
           rows == DeviceTable_wCsv(t)
           rd == DeviceTable_rCsv(DeviceTable_init, rows, "testbinding")
       IN /\ testfile' = [exists |-> TRUE, rows |-> rows]
          /\ readback' = [t |-> rd.t, outcome |-> RoundtripOutcome(t, rd.t)]

\* "Add Device": a new table, named by the user, joins the list and is edited next
AddDevice(dev, input) ==
  /\ ch = "main"
  /\ Len(loaded_devices) < MaxDevices
  /\ MenuRoundtrip
  /\ LET filename == IF Len(input) < 1 THEN dev.name ELSE input
     IN loaded_devices' = Append(loaded_devices, NewDeviceTable(dev, filename))
  /\ current_device' = Len(loaded_devices) + 1
  /\ ch' = "edit_device"
  /\ op' = "add_device"
  /\ UNCHANGED <<procVars, table, lastMatch, dis, deviceDir, files_to_destroy, saved>>

\* "Edit Device" after an add: the edit session of the table in hand, which
\* the user leaves without a change here
EditDevice ==
  /\ ch = "edit_device"
  /\ current_device # 0
  /\ MenuRoundtrip
  /\ current_device' = 0
  /\ ch' = "main"
  /\ op' = "edit_device"
  /\ UNCHANGED <<procVars, table, lastMatch, dis, deviceDir, loaded_devices,
                 files_to_destroy, saved>>

\* "Remove Device": the table chosen leaves the list and its name joins
\* files_to_destroy
RemoveDevice(i) ==
  /\ ch = "main"
  /\ i \in 1..Len(loaded_devices)
  /\ Len(files_to_destroy) < MaxDestroy
  /\ MenuRoundtrip
  /\ loaded_devices' = [k \in 1..(Len(loaded_devices) - 1) |->
                          IF k < i THEN loaded_devices[k] ELSE loaded_devices[k + 1]]
  /\ files_to_destroy' = Append(files_to_destroy, loaded_devices[i].filename)
  /\ current_device' = 0
  /\ ch' = "main"
  /\ op' = "remove_device"
  /\ UNCHANGED <<procVars, table, lastMatch, dis, deviceDir, saved>>

\* "Save and Run" and "Save and quit": both call save_config first; an
\* exception leaves menus
SaveConfig(choice) ==
  /\ ch = "main"
  /\ MenuRoundtrip
  /\ LET sv == save_config(loaded_devices, files_to_destroy, deviceDir)
     IN /\ loaded_devices' = sv.devices
        /\ files_to_destroy' = sv.destroy
        /\ deviceDir' = sv.dir
        /\ saved' = [called |-> TRUE, err |-> sv.err, log |-> sv.log,
                     pending |-> files_to_destroy]
        /\ ch' = IF sv.err # "" THEN "crashed"
                 ELSE IF choice = "run" THEN "running" ELSE "done"
  /\ op' = choice
  /\ UNCHANGED <<procVars, table, lastMatch, dis, current_device>>

\* the binding lists an edit session of a table with these rows can end
\* with: as they were (Cancel, or OK with no edit), one row added, one removed
ShellOutcomes(rows) ==
  {rows} \cup (IF rows = <<>> THEN {<<PhraseRow>>} ELSE {Tail(rows)})

\* "Edit Device" from the main menu: the user picks the table at position i
\* (0 is "Cancel") and its edit session ends with the binding list rows
EditChosen(i, rows) ==
  /\ ch = "main"
  /\ i \in 0..Len(loaded_devices)
  /\ MenuRoundtrip
  /\ IF i = 0 THEN UNCHANGED loaded_devices
     ELSE /\ rows \in ShellOutcomes(loaded_devices[i].binding)
          /\ loaded_devices' = [loaded_devices EXCEPT ![i].binding = rows]
  /\ current_device' = 0
  /\ ch' = "main"
  /\ op' = "edit_device"
  /\ UNCHANGED <<procVars, table, lastMatch, dis, deviceDir, files_to_destroy, saved>>

\* a quit without saving that saves
CancelQuitSaves ==
  /\ ch = "main"
  /\ MenuRoundtrip
  /\ LET sv == save_config(loaded_devices, files_to_destroy, deviceDir)
     IN /\ loaded_devices' = sv.devices
        /\ files_to_destroy' = sv.destroy
        /\ deviceDir' = sv.dir
  /\ ch' = "done"
  /\ op' = "cancelquit"
  /\ UNCHANGED <<procVars, table, lastMatch, dis, current_device, saved>>

\* "Quit without saving"
CancelQuit ==
  /\ ch = "main"
  /\ MenuRoundtrip
  /\ ch' = "done"
  /\ op' = "cancelquit"
  /\ UNCHANGED <<procVars, table, lastMatch, dis, deviceDir, loaded_devices,
                 files_to_destroy, current_device, saved>>

NextMenu ==
  \/ \E dev \in LiveDevices, input \in {"A", "B", ""} : AddDevice(dev, input)
  \/ EditDevice
  \/ \E i \in 1..MaxDevices : RemoveDevice(i)
  \/ \E choice \in {"run", "savequit"} : SaveConfig(choice)
  \/ CancelQuit

SpecMenu == InitMenu /\ [][NextMenu]_vars

\* the menu with edits of the tables; every new device takes the name of its
\* device
NextQuit ==
  \/ \E dev \in LiveDevices : AddDevice(dev, "")
  \/ EditDevice
  \/ \E i \in 0..MaxDevices, rows \in {<<>>, <<PhraseRow>>} : EditChosen(i, rows)
  \/ \E i \in 1..MaxDevices : RemoveDevice(i)
  \/ \E choice \in {"run", "savequit"} : SaveConfig(choice)
  \/ CancelQuit

SpecQuit == InitMenu /\ [][NextQuit]_vars

-----------------------------------------------------------------------------
(* The process: __main__, the run loop of menus and cleanup_devices *)

\* most events buffered by one device, and most events delivered in a run
MaxQueue == 2
MaxEvents == 2

runFrame == <<table, lastMatch, testfile, readback, dis, deviceDir,
              files_to_destroy, current_device, ch, saved, got, autokey, loadres,
              session, matched>>

\* the devices of a run: the first two are plugged in

\* the events a device can deliver
RawEvents == {InputEvent(1, 30, 1), InputEvent(1, 30, 0), InputEvent(2, 0, 1)}

\* the tables of a run: loaded from files, every field a str
RunTable(name, phys, rows) ==
  [DeviceTable_init EXCEPT !.filename = name,
                           !.search.name = PyStr(name),
                           !.search.phys = PyStr(phys),
                           !.binding = rows]

\* the lists of tables a run starts with; the device of TableGone is not
\* plugged in
RunLoads ==
  LET TableFoo == RunTable("Foo", "usb1/1-2:1.0", <<PhraseRow, ScriptRow>>)
      TableBar == RunTable("Bar", "usb1/1-3:1.0",
                           <<LayerRow, wLayer(PhraseRow, "work")>>)
      TableGone == RunTable("Gone", "usb1/1-4:1.0", <<PhraseRow>>)
  IN {<<>>, <<TableFoo>>, <<TableFoo, TableBar>>, <<TableGone, TableFoo>>,
      <<TableFoo, TableGone>>, <<TableFoo, TableFoo>>}

\* line 751 has opened the devices, some with a stray event already buffered,
\* and menus has loaded the tables
InitRun ==
  /\ table = DeviceTable_init
  /\ lastMatch = NoMatch
  /\ testfile = NoFile
  /\ readback = NoReadback
  /\ dis = NoCall
  /\ deviceDir = EmptyDir
  /\ loaded_devices \in RunLoads
  /\ files_to_destroy = <<>>
  /\ current_device = 0
  /\ ch = "main"
  /\ saved = NoSave
  /\ \E q \in {<<>>, <<InputEvent(1, 30, 1)>>} :
       all_devices = <<[InputDevice("Foo", "usb1/1-2:1.0") EXCEPT !.queue = q],
                       InputDevice("Bar", "usb1/1-3:1.0")>>
  /\ got = NoGet
  /\ autokey \in {"ok", "fail", "missing"}
  /\ pc = "menus"
  /\ cur = 0
  /\ cleanup = NoCleanup
  /\ trace = <<>>
  /\ loadres = NoLoad
  /\ session = NoSession
  /\ matched = NoRowMatch
  /\ capture = NoCapture
  /\ op = "init"

\* the device a table's passthroughs act on: self.search.get()
Resolve(t) == DeviceSearch_get(t.search, all_devices)

\* an exception leaves menus: the bare except of __main__ catches it
Raise(exc) ==
  /\ pc' = "except"
  /\ cur' = 0
  /\ cleanup' = [cleanup EXCEPT !.raised = exc]

\* "Save and quit" or "Quit without saving": menus returns, and line 754
\* calls cleanup_devices
MenusReturn ==
  /\ pc = "menus"
  /\ pc' = "cleanup_ungrab"
  /\ cur' = 1
  /\ cleanup' = [cleanup EXCEPT !.raised = "", !.calls = @ + 1]
  /\ op' = "return"
  /\ UNCHANGED <<runFrame, capture, loaded_devices, all_devices, trace>>

\* an exception in the menu flow (a load or a save that raises)
MenusFail ==
  /\ pc = "menus"
  /\ Raise("Exception")
  /\ op' = "fail"
  /\ UNCHANGED <<runFrame, capture, loaded_devices, all_devices, trace>>

\* "Save and Run": line 673 starts the loop over the tables
MenusRun ==
  /\ pc = "menus"
  /\ pc' = IF loaded_devices = <<>> THEN "run" ELSE "enter_run"
  /\ cur' = IF loaded_devices = <<>> THEN 0 ELSE 1
  /\ op' = "run"
  /\ UNCHANGED <<runFrame, capture, loaded_devices, all_devices, cleanup, trace>>

\* trace entries: <<"grab", table, device>>, <<"drain", table, device, event>>
\* for an event read and discarded, <<"match", table, device, event, trig,
\* sink>> for an event read and passed to eventMatch

\* a read that takes the newest buffered event
InputDevice_read_newest(n) ==
  [e |-> n.queue[Len(n.queue)],
   dev |-> [n EXCEPT !.queue = SubSeq(@, 1, Len(@) - 1)]]

\* n.read_one() with an event buffered: the oldest event leaves the buffer
InputDevice_read_one(n) ==
  [e |-> Head(n.queue), dev |-> [n EXCEPT !.queue = Tail(@)]]

RECURSIVE Buffered(_, _)
\* the events waiting in the buffers of the devices from position i on
Buffered(devs, i) ==
  IF i > Len(devs) THEN 0 ELSE Len(devs[i].queue) + Buffered(devs, i + 1)

\* the events delivered so far: read, or waiting in a buffer
Delivered == Len(SelectSeq(trace, LAMBDA x : x[1] \in {"match", "drain"})) + Buffered(all_devices, 1)

\* the device i buffers one more event
Arrive(i, e) ==
  /\ pc \in {"menus", "enter_run", "run", "detect_grab", "detect_poll",
           "detect_ungrab", "shell_grab", "shell_poll", "shell_ungrab"}
  /\ i \in 1..Len(all_devices)
  /\ Len(all_devices[i].queue) < MaxQueue
  /\ Delivered < MaxEvents
  /\ all_devices' = [all_devices EXCEPT ![i].queue = Append(@, e)]
  /\ op' = "arrive"
  /\ UNCHANGED <<runFrame, capture, loaded_devices, pc, cur, cleanup, trace>>

RECURSIVE DrainEntries(_, _, _)
DrainEntries(t, d, q) ==
  IF q = <<>> THEN <<>>
  ELSE <<<<"drain", t, d, Head(q)>>>> \o DrainEntries(t, d, Tail(q))

\* lines 674-677 for the table at position cur: d.grab(), then read_one until
\* it returns None.  get() returning None makes the passthrough raise
\* AttributeError; evdev raises OSError for a grab of a grabbed device.
EnterDevice ==
  /\ pc = "enter_run"
  /\ LET r == Resolve(loaded_devices[cur])
         last == cur = Len(loaded_devices)
     IN IF r.err # "" THEN Raise(r.err) /\ UNCHANGED <<all_devices, trace>>
        ELSE IF r.idx = 0
        THEN Raise("AttributeError") /\ UNCHANGED <<all_devices, trace>>
        ELSE IF all_devices[r.idx].grabbed
        THEN Raise("OSError") /\ UNCHANGED <<all_devices, trace>>
        ELSE /\ all_devices' = [all_devices EXCEPT ![r.idx].grabbed = TRUE,
                                                   ![r.idx].queue = <<>>]
             /\ trace' = trace \o <<<<"grab", cur, r.idx>>>>
                            \o DrainEntries(cur, r.idx, all_devices[r.idx].queue)
             /\ pc' = IF last THEN "run" ELSE "enter_run"
             /\ cur' = IF last THEN 1 ELSE cur + 1
             /\ UNCHANGED cleanup
  /\ op' = "enter"
  /\ UNCHANGED <<runFrame, capture, loaded_devices>>

\* a dispatch whose layer switch reaches every table
AfterDispatchShared(tables, k, m) ==
  [j \in 1..Len(tables) |-> [tables[j] EXCEPT !.layer = m.layer]]

\* line 684, device.eventMatch(cat): the tables once the scan m of the table
\* at position k has ended; trigger assigns the layer of that table only
AfterDispatch(tables, k, m) == [tables EXCEPT ![k].layer = m.layer]

\* lines 680-686 for the table at position cur: one read_one; an event is
\* categorized and passed to the table's eventMatch, None moves the loop to
\* the next table (and to the sleep after the last)
PollDevice ==
  /\ pc = "run"
  /\ cur # 0
  /\ LET t == loaded_devices[cur]
         r == Resolve(t)
         next == IF cur = Len(loaded_devices) THEN 1 ELSE cur + 1
     IN IF r.err # "" \/ r.idx = 0
        THEN /\ Raise(IF r.err # "" THEN r.err ELSE "AttributeError")
             /\ UNCHANGED <<all_devices, loaded_devices, trace>>
        ELSE IF all_devices[r.idx].queue = <<>>
        THEN /\ cur' = next
             /\ UNCHANGED <<all_devices, loaded_devices, trace, pc, cleanup>>
        ELSE LET rd == InputDevice_read_one(all_devices[r.idx])
                 e == rd.e
                 m == DeviceTable_eventMatch(t, categorize(e))
             IN /\ all_devices' = [all_devices EXCEPT ![r.idx] = rd.dev]
                /\ loaded_devices' = AfterDispatch(loaded_devices, cur, m)
                /\ trace' = Append(trace, <<"match", cur, r.idx, e, m.trig, m.sink>>)
                /\ IF m.err # "" THEN Raise(m.err)
                   ELSE UNCHANGED <<pc, cur, cleanup>>
  /\ op' = "poll"
  /\ UNCHANGED <<runFrame, capture>>

\* Ctrl+C while menus runs: KeyboardInterrupt reaches the bare except
Interrupt ==
  /\ pc \in {"menus", "enter_run", "run", "detect_grab", "detect_poll",
           "detect_ungrab", "shell_grab", "shell_poll", "shell_ungrab"}
  /\ Raise("KeyboardInterrupt")
  /\ op' = "interrupt"
  /\ UNCHANGED <<runFrame, capture, loaded_devices, all_devices, trace>>

\* lines 755-758: the traceback is printed and cleanup_devices is called
Handler ==
  /\ pc = "except"
  /\ pc' = "cleanup_ungrab"
  /\ cur' = 1
  /\ cleanup' = [cleanup EXCEPT !.calls = @ + 1]
  /\ op' = "handler"
  /\ UNCHANGED <<runFrame, capture, loaded_devices, all_devices, trace>>

\* n.ungrab(): releases the grab; evdev raises for a device that is not
\* grabbed or is closed, and cleanup_devices passes over that
InputDevice_ungrab(n) == [n EXCEPT !.grabbed = FALSE]

\* a close that leaves the handle open
InputDevice_closeNot(n) == [n EXCEPT !.queue = <<>>]

\* n.close(): the handle is closed, which also ends a grab held through it
InputDevice_close(n) == [n EXCEPT !.closed = TRUE, !.grabbed = FALSE, !.queue = <<>>]

\* lines 735-738 for the device at position cur
CleanupUngrab ==
  /\ pc = "cleanup_ungrab"
  /\ all_devices' = [all_devices EXCEPT ![cur] = InputDevice_ungrab(@)]
  /\ pc' = "cleanup_close"
  /\ op' = "ungrab"
  /\ UNCHANGED <<runFrame, capture, loaded_devices, cur, cleanup, trace>>

\* what follows the second try of the loop for the device at position cur:
\* the next device, or the return of cleanup_devices and the end of the
\* process; c is the record of the cleanup so far
CleanupAdvance(c) ==
  IF cur = Len(all_devices)
  THEN /\ pc' = "exit"
       /\ cur' = 0
       /\ cleanup' = [c EXCEPT !.done = @ + 1]
  ELSE /\ pc' = "cleanup_ungrab"
       /\ cur' = cur + 1
       /\ cleanup' = c

\* lines 739-742 for the device at position cur
CleanupClose ==
  /\ pc = "cleanup_close"
  /\ all_devices' = [all_devices EXCEPT ![cur] = InputDevice_close(@)]
  /\ CleanupAdvance(cleanup)
  /\ op' = "close"
  /\ UNCHANGED <<runFrame, capture, loaded_devices, trace>>

\* Ctrl+C in the except block before cleanup_devices is called: nothing
\* catches it, the process ends
InterruptHandler ==
  /\ pc = "except"
  /\ pc' = "exit"
  /\ cur' = 0
  /\ cleanup' = [cleanup EXCEPT !.cut = TRUE]
  /\ op' = "interrupt_handler"
  /\ UNCHANGED <<runFrame, capture, loaded_devices, all_devices, trace>>

\* Ctrl+C at the for statement of cleanup_devices, outside its two try
\* blocks: the call made from the try block of __main__ is left for the
\* except block, the call made from the except block ends the process
InterruptCleanup ==
  /\ pc = "cleanup_ungrab"
  /\ LET inHandler == cleanup.raised \notin {"none", ""}
     IN /\ pc' = IF inHandler THEN "exit" ELSE "except"
        /\ cleanup' = [cleanup EXCEPT
                         !.cut = TRUE,
                         !.raised = IF inHandler THEN @ ELSE "KeyboardInterrupt"]
  /\ cur' = 0
  /\ op' = "interrupt_cleanup"
  /\ UNCHANGED <<runFrame, capture, loaded_devices, all_devices, trace>>

\* Ctrl+C inside the first try of the loop: the bare except passes over it,
\* whether n.ungrab() had acted or not
InterruptUngrab(acted) ==
  /\ pc = "cleanup_ungrab"
  /\ all_devices' = IF acted
                    THEN [all_devices EXCEPT ![cur] = InputDevice_ungrab(@)]
                    ELSE all_devices
  /\ pc' = "cleanup_close"
  /\ cleanup' = [cleanup EXCEPT !.cut = TRUE]
  /\ op' = "interrupt_ungrab"
  /\ UNCHANGED <<runFrame, capture, loaded_devices, cur, trace>>

\* Ctrl+C inside the second try of the loop: passed over as well, whether
\* n.close() had acted or not
InterruptClose(acted) ==
  /\ pc = "cleanup_close"
  /\ all_devices' = IF acted
                    THEN [all_devices EXCEPT ![cur] = InputDevice_close(@)]
                    ELSE all_devices
  /\ CleanupAdvance([cleanup EXCEPT !.cut = TRUE])
  /\ op' = "interrupt_close"
  /\ UNCHANGED <<runFrame, capture, loaded_devices, trace>>

NextRun ==
  \/ MenusReturn
  \/ MenusFail
  \/ MenusRun
  \/ \E i \in 1..2, e \in RawEvents : Arrive(i, e)
  \/ EnterDevice
  \/ PollDevice
  \/ Interrupt
  \/ Handler
  \/ CleanupUngrab
  \/ CleanupClose
  \/ InterruptHandler
  \/ InterruptCleanup
  \/ \E acted \in BOOLEAN : InterruptUngrab(acted)
  \/ \E acted \in BOOLEAN : InterruptClose(acted)

SpecRun == InitRun /\ [][NextRun]_vars

-----------------------------------------------------------------------------
(* The capture flows: detectDevice and BindingRow.shell *)

\* a menu asks for a capture: the two devices are open, none grabbed by this
\* process, some with an event buffered
InitCapture ==
  /\ table = DeviceTable_init
  /\ lastMatch = NoMatch
  /\ testfile = NoFile
  /\ readback = NoReadback
  /\ dis = NoCall
  /\ deviceDir = EmptyDir
  /\ loaded_devices = <<>>
  /\ files_to_destroy = <<>>
  /\ current_device = 0
  /\ ch = "main"
  /\ saved = NoSave
  /\ \E q \in {<<>>, <<InputEvent(1, 30, 1)>>, <<InputEvent(2, 0, 1)>>} :
       all_devices = <<[InputDevice("Foo", "usb1/1-2:1.0") EXCEPT !.queue = q],
                       InputDevice("Bar", "usb1/1-3:1.0")>>
  /\ got = NoGet
  /\ autokey = "ok"
  /\ pc = "menus"
  /\ cur = 0
  /\ cleanup = NoCleanup
  /\ trace = <<>>
  /\ loadres = NoLoad
  /\ session = NoSession
  /\ matched = NoRowMatch
  /\ capture = NoCapture
  /\ op = "init"

\* DeviceSearch.shell calls detectDevice (line 290): line 245 starts the loop
\* over all_devices
CallDetectDevice ==
  /\ pc = "menus"
  /\ capture.flow = "none"
  /\ capture' = [capture EXCEPT !.flow = "detectDevice"]
  /\ pc' = "detect_grab"
  /\ cur' = 1
  /\ op' = "detectDevice"
  /\ UNCHANGED <<runFrame, loaded_devices, all_devices, cleanup, trace>>

\* lines 246-249 for the device at position cur: read_one until None, then
\* d.grab(); ok is whether evdev lets the grab through (it raises OSError for
\* a device another process has grabbed)
DetectGrab(ok) ==
  /\ pc = "detect_grab"
  /\ trace' = trace \o DrainEntries(0, cur, all_devices[cur].queue)
  /\ IF ok
     THEN /\ all_devices' = [all_devices EXCEPT ![cur].queue = <<>>,
                                                ![cur].grabbed = TRUE]
          /\ pc' = IF cur = Len(all_devices) THEN "detect_poll" ELSE "detect_grab"
          /\ cur' = IF cur = Len(all_devices) THEN 0 ELSE cur + 1
          /\ UNCHANGED cleanup
     ELSE /\ all_devices' = [all_devices EXCEPT ![cur].queue = <<>>]
          /\ Raise("OSError")
  /\ op' = "detect_grab"
  /\ UNCHANGED <<runFrame, capture, loaded_devices>>

RECURSIVE LastKeyDevice(_, _)
\* lines 253-258: the last device, in the order of all_devices, that had a
\* key event (type 1) buffered; 0 when none had
LastKeyDevice(devs, i) ==
  IF i = 0 THEN 0
  ELSE IF \E k \in 1..Len(devs[i].queue) : devs[i].queue[k].type = 1 THEN i
  ELSE LastKeyDevice(devs, i - 1)

RECURSIVE DiscardAll(_, _)
DiscardAll(devs, i) ==
  IF i > Len(devs) THEN <<>>
  ELSE DrainEntries(0, i, devs[i].queue) \o DiscardAll(devs, i + 1)

\* lines 252-259: one pass over all_devices that finds something buffered;
\* every buffer is read to its end
DetectPoll ==
  /\ pc = "detect_poll"
  /\ Buffered(all_devices, 1) > 0
  /\ LET dev == LastKeyDevice(all_devices, Len(all_devices))
     IN /\ capture' = [capture EXCEPT !.dev = dev]
        /\ pc' = IF dev = 0 THEN "detect_poll" ELSE "detect_ungrab"
        /\ cur' = IF dev = 0 THEN 0 ELSE 1
  /\ trace' = trace \o DiscardAll(all_devices, 1)
  /\ all_devices' = [i \in 1..Len(all_devices) |->
                       [all_devices[i] EXCEPT !.queue = <<>>]]
  /\ op' = "detect_poll"
  /\ UNCHANGED <<runFrame, loaded_devices, cleanup>>

\* lines 260-261 for the device at position cur, and the return of line 267
\* after the last
DetectUngrab ==
  /\ pc = "detect_ungrab"
  /\ all_devices' = [all_devices EXCEPT ![cur] = InputDevice_ungrab(@)]
  /\ pc' = IF cur = Len(all_devices) THEN "menus" ELSE "detect_ungrab"
  /\ cur' = IF cur = Len(all_devices) THEN 0 ELSE cur + 1
  /\ capture' = [capture EXCEPT !.returned = (cur = Len(all_devices))]
  /\ op' = "detect_ungrab"
  /\ UNCHANGED <<runFrame, loaded_devices, cleanup, trace>>

\* add_binding_shell calls ans.shell(self, ...) (lines 540-555) on the table
\* whose device is at position i
CallBindingShell(i) ==
  /\ pc = "menus"
  /\ capture.flow = "none"
  /\ i \in 1..Len(all_devices)
  /\ capture' = [capture EXCEPT !.flow = "shell", !.dev = i]
  /\ pc' = "shell_grab"
  /\ cur' = i
  /\ op' = "shell"
  /\ UNCHANGED <<runFrame, loaded_devices, all_devices, cleanup, trace>>

\* lines 405-408: read_one until None, then device.grab()
ShellGrab(ok) ==
  /\ pc = "shell_grab"
  /\ trace' = trace \o DrainEntries(0, cur, all_devices[cur].queue)
  /\ IF ok
     THEN /\ all_devices' = [all_devices EXCEPT ![cur].queue = <<>>,
                                                ![cur].grabbed = TRUE]
          /\ pc' = "shell_poll"
          /\ UNCHANGED <<cur, cleanup>>
     ELSE /\ all_devices' = [all_devices EXCEPT ![cur].queue = <<>>]
          /\ Raise("OSError")
  /\ op' = "shell_grab"
  /\ UNCHANGED <<runFrame, capture, loaded_devices>>

\* lines 411-415: one read_one that returns an event; a key event ends the
\* loop, any other is passed over
ShellPoll ==
  /\ pc = "shell_poll"
  /\ all_devices[cur].queue # <<>>
  /\ LET rd == InputDevice_read_one(all_devices[cur])
     IN /\ all_devices' = [all_devices EXCEPT ![cur] = rd.dev]
        /\ IF rd.e.type = 1
           THEN /\ capture' = [capture EXCEPT !.key = <<rd.e>>]
                /\ pc' = "shell_ungrab"
                /\ trace' = Append(trace, <<"key", 0, cur, rd.e>>)
           ELSE /\ trace' = trace \o DrainEntries(0, cur, <<rd.e>>)
                /\ UNCHANGED <<capture, pc>>
  /\ op' = "shell_poll"
  /\ UNCHANGED <<runFrame, loaded_devices, cur, cleanup>>

\* line 416 and the rest of shell: device.ungrab(), the row is filled in and
\* printed.  An exception of print(self) leaves shell after the ungrab.
ShellUngrab ==
  /\ pc = "shell_ungrab"
  /\ all_devices' = [all_devices EXCEPT ![cur] = InputDevice_ungrab(@)]
  /\ LET r == BindingRow_shell(BindingRow_init, categorize(capture.key[1]),
                               "phrase", "hello")
     IN IF r.err # "" THEN Raise(r.err) /\ UNCHANGED capture
        ELSE /\ pc' = "menus"
             /\ cur' = 0
             /\ capture' = [capture EXCEPT !.returned = TRUE]
             /\ UNCHANGED cleanup
  /\ op' = "shell_ungrab"
  /\ UNCHANGED <<runFrame, loaded_devices, trace>>

NextCapture ==
  \/ CallDetectDevice
  \/ \E ok \in BOOLEAN : DetectGrab(ok)
  \/ DetectPoll
  \/ DetectUngrab
  \/ \E i \in 1..2 : CallBindingShell(i)
  \/ \E ok \in BOOLEAN : ShellGrab(ok)
  \/ ShellPoll
  \/ ShellUngrab
  \/ \E i \in 1..2, e \in RawEvents : Arrive(i, e)
  \/ Interrupt

SpecCapture == InitCapture /\ [][NextCapture]_vars

-----------------------------------------------------------------------------
(* Loads: load_config over a directory, rCsv of one file *)

\* most files in the devices directory
MaxFiles == 3

FileNames == <<"a", "b", "c", "d">>

\* what a file of the directory can hold, as csv.reader gives its rows: a
\* table with no binding, a table with one, a binding row cut short, a device
\* row cut short, nothing, rows of another kind only, and a table among rows
\* of another kind and a blank line
FileContents ==
  LET DeviceLine == <<"device", "version-1", "name", "Foo", "usb1/1-2:1.0">>
      BindingLine == <<"binding", "default", "keydown", "KEY_A", "phrase", "P">>
  IN {<<DeviceLine>>,
      <<DeviceLine, BindingLine>>,
      <<DeviceLine, <<"binding", "default", "keydown">>>>,
      <<<<"device", "version-1", "name">>>>,
      <<>>,
      <<<<"future", "1">>, <<"note">>>>,
      <<<<"future", "1">>, DeviceLine, <<>>, BindingLine, <<"note">>>>}

\* the glob of the directory: the files present, in one order or the other
GlobUp(present) == SelectSeq(FileNames, LAMBDA n : n \in present)

InitLoad ==
  /\ table = DeviceTable_init
  /\ lastMatch = NoMatch
  /\ testfile = NoFile
  /\ readback = NoReadback
  /\ dis = NoCall
  /\ \E present \in SUBSET {FileNames[k] : k \in 1..MaxFiles} :
       /\ deviceDir \in [present -> FileContents]
       /\ LET up == GlobUp(present)
          IN \E files \in {up, [k \in 1..Len(up) |-> up[Len(up) + 1 - k]]} :
               loadres = [NoLoad EXCEPT !.files = files]
  /\ loaded_devices = <<>>
  /\ files_to_destroy = <<>>
  /\ current_device = 0
  /\ ch = "main"
  /\ saved = NoSave
  /\ all_devices = <<>>
  /\ got = NoGet
  /\ autokey = "ok"
  /\ pc = "menus"
  /\ cur = 0
  /\ cleanup = NoCleanup
  /\ trace = <<>>
  /\ session = NoSession
  /\ matched = NoRowMatch
  /\ capture = NoCapture
  /\ op = "init"

\* line 652: loaded_devices = load_config()
LoadConfig ==
  /\ ~loadres.called
  /\ LET r == load_config(deviceDir, loadres.files)
     IN /\ loaded_devices' = IF r.err = "" THEN r.ans ELSE loaded_devices
        /\ loadres' = [loadres EXCEPT !.called = TRUE, !.err = r.err]
  /\ op' = "load_config"
  /\ UNCHANGED <<table, lastMatch, testfile, readback, dis, deviceDir,
               files_to_destroy, current_device, ch, saved, all_devices, got,
               autokey, pc, cur, cleanup, trace, session, matched, capture>>

\* t = DeviceTable(); t.rCsv(file) for one file of the directory
RCsvFile(name) ==
  /\ ~loadres.called
  /\ name \in DOMAIN deviceDir
  /\ LET rd == DeviceTable_rCsv(DeviceTable_init, deviceDir[name], name)
     IN loadres' = [loadres EXCEPT !.called = TRUE, !.rows = deviceDir[name],
                                  !.t = rd.t, !.err = rd.err]
  /\ op' = "rCsv_file"
  /\ UNCHANGED <<loaded_devices, table, lastMatch, testfile, readback, dis, deviceDir,
               files_to_destroy, current_device, ch, saved, all_devices, got,
               autokey, pc, cur, cleanup, trace, session, matched, capture>>

NextLoad ==
  \/ LoadConfig
  \/ \E k \in 1..MaxFiles : RCsvFile(FileNames[k])

SpecLoad == InitLoad /\ [][NextLoad]_vars

-----------------------------------------------------------------------------
(* The edit session of one table: DeviceTable.shell *)

\* most edits in one session
MaxEdits == 3

\* the binding lists a session starts from
SessionStarts ==
  {<<>>, <<PhraseRow>>, <<PhraseRow, PhraseRow>>, <<LayerRow, PhraseRow>>,
   <<PhraseRow, LayerRow, PhraseRow>>}

InitSession ==
  /\ table \in {RunTable("Foo", "usb1/1-2:1.0", rows) : rows \in SessionStarts}
  /\ lastMatch = NoMatch
  /\ testfile = NoFile
  /\ readback = NoReadback
  /\ dis = NoCall
  /\ deviceDir = EmptyDir
  /\ loaded_devices = <<>>
  /\ files_to_destroy = <<>>
  /\ current_device = 0
  /\ ch = "main"
  /\ saved = NoSave
  /\ InitProc
  /\ op = "init"

\* line 574: the session starts with a backup made of copies of the rows
ShellStart ==
  /\ session.ch = "none"
  /\ session' = [ch |-> "main",
                 backup |-> [k \in 1..Len(table.binding) |->
                               BindingRow_copy(table.binding[k])],
                 start |-> table.binding,
                 ops |-> <<>>]
  /\ op' = "shell"
  /\ UNCHANGED <<table, lastMatch, testfile, readback, dis, menuVars, all_devices,
               got, autokey, pc, cur, cleanup, trace, loadres, matched, capture>>

\* the default title of each kind of trigger
DefaultTitle(choice) ==
  CASE choice = "phrase" -> "First phrase"
    [] choice = "folder" -> "My Phrases"
    [] choice = "script" -> "List Menu"
    [] OTHER -> "default"

\* "Add Binding": add_binding_shell with the kind chosen, the title and the
\* layer typed and the key event e pressed.  An exception of BindingRow.shell
\* leaves the session.
AddBinding(choice, title, e, layer) ==
  /\ session.ch = "main"
  /\ Len(table.binding) < MaxRows
  /\ Len(session.ops) < MaxEdits
  /\ IF choice = "cancel" THEN UNCHANGED <<table, session>>
     ELSE LET r == BindingRow_shell(BindingRow_init, categorize(e), choice,
                                    IF Len(title) < 1 THEN DefaultTitle(choice)
                                    ELSE title)
              row == wLayer(r.row, IF Len(layer) < 1 THEN "default" ELSE layer)
          IN IF r.err # ""
             THEN /\ session' = [session EXCEPT !.ch = "raised"]
                  /\ UNCHANGED table
             ELSE /\ table' = [table EXCEPT !.binding = Append(@, row)]
                  /\ session' = [session EXCEPT !.ops = Append(@, <<"add", row>>)]
  /\ op' = "add_binding"
  /\ UNCHANGED <<lastMatch, testfile, readback, dis, menuVars, all_devices,
               got, autokey, pc, cur, cleanup, trace, loadres, matched, capture>>

\* "Remove Binding": the row chosen at position i of the menu is taken out
\* with list.remove, that is the first row equal to it; i = 0 is "Cancel"
RemoveBinding(i) ==
  /\ session.ch = "main"
  /\ Len(session.ops) < MaxEdits
  /\ i \in 0..Len(table.binding)
  /\ IF i = 0 THEN UNCHANGED <<table, session>>
     ELSE /\ table' = [table EXCEPT !.binding = RemoveFirst(@, table.binding[i])]
          /\ session' = [session EXCEPT !.ops = Append(@, <<"remove", i>>)]
  /\ op' = "remove_binding"
  /\ UNCHANGED <<lastMatch, testfile, readback, dis, menuVars, all_devices,
               got, autokey, pc, cur, cleanup, trace, loadres, matched, capture>>

\* "OK": the session ends and the edits stay
ShellSave ==
  /\ session.ch = "main"
  /\ session' = [session EXCEPT !.ch = "save"]
  /\ op' = "shell_save"
  /\ UNCHANGED <<table, lastMatch, testfile, readback, dis, menuVars, all_devices,
               got, autokey, pc, cur, cleanup, trace, loadres, matched, capture>>

\* a cancel that leaves the binding list as edited
ShellCancelKeeps(t, backup) == t

\* line 595: self.binding = backup
ShellCancelBinding(t, backup) == [t EXCEPT !.binding = backup]

\* "Cancel": the session ends and the backup becomes the binding list
ShellCancel ==
  /\ session.ch = "main"
  /\ table' = ShellCancelBinding(table, session.backup)
  /\ session' = [session EXCEPT !.ch = "cancel"]
  /\ op' = "shell_cancel"
  /\ UNCHANGED <<lastMatch, testfile, readback, dis, menuVars, all_devices,
               got, autokey, pc, cur, cleanup, trace, loadres, matched, capture>>

\* the key events the wizard can capture: KEY_A down, and the mute key, whose
\* code has several names
WizardEvents == {InputEvent(1, 30, 1), InputEvent(1, 113, 1)}

NextSession ==
  \/ ShellStart
  \/ \E choice \in {"phrase", "assign_layer", "cancel"}, title \in {"", "T"},
        e \in WizardEvents, layer \in {"", "work"} :
       AddBinding(choice, title, e, layer)
  \/ \E i \in 0..MaxRows : RemoveBinding(i)
  \/ ShellSave
  \/ ShellCancel

SpecSession == InitSession /\ [][NextSession]_vars

-----------------------------------------------------------------------------
(* Properties of the dispatch scan *)

\* the positions of the rows whose trigger was called in the scan m
FiredAt(m) == {m.trig[k] : k \in 1..Len(m.trig)}

\* the result of a scan lists the rows at the positions fired, in that order
AnsIsFiredRows(m, rows) ==
  /\ Len(m.ans) = Len(m.trig)
  /\ \A k \in 1..Len(m.trig) : m.ans[k] = rows[m.trig[k]]

\* C1: eventMatch fires every row whose layer is the active layer at the moment
\* the row is tested and whose pattern matches the event, and no other row;
\* there is no first-match cutoff, and the result lists the fired rows in their
\* stored order.
C1_MultiFire ==
  op = "eventMatch" =>
    LET m == lastMatch
        rows == table.binding
    IN /\ Len(m.seen) = Len(rows)
       /\ \A i \in 1..Len(rows) :
            (i \in FiredAt(m)) <=>
              (rows[i].layer = m.seen[i] /\ BindingRow_eventMatch(rows[i], m.ev))
       /\ \A k \in 1..(Len(m.trig) - 1) : m.trig[k] < m.trig[k + 1]
       /\ AnsIsFiredRows(m, rows)

\* two rows of the same layer, tested against the same active layer, both
\* fired for one event
C1_Witness ==
  /\ op = "eventMatch"
  /\ \E i, j \in 1..Len(table.binding) :
       /\ i < j
       /\ {i, j} \subseteq FiredAt(lastMatch)
       /\ table.binding[i].layer = table.binding[j].layer
       /\ lastMatch.seen[i] = lastMatch.seen[j]
       /\ lastMatch.ans = <<table.binding[i], table.binding[j]>>

RECURSIVE LayerBefore(_, _, _, _)
\* the active layer row i is to be tested against: the layer the scan started
\* in, replaced by the trigger value of each earlier assign_layer row that fired
LayerBefore(rows, e, layer0, i) ==
  IF i = 1 THEN layer0
  ELSE LET p == LayerBefore(rows, e, layer0, i - 1)
           r == rows[i - 1]
       IN IF /\ r.layer = p
             /\ BindingRow_eventMatch(r, e)
             /\ r.trigger_type = PyStr("assign_layer")
          THEN r.trigger_data
          ELSE p

SwitchRow == wKeyDown(wAssignLayer(BindingRow_init, "work"), PyStr("KEY_A"))
WorkRow == wLayer(wKeyDown(wPhrase(BindingRow_init, "P"), PyStr("KEY_A")), "work")

\* C2: within one scan, once an assign_layer row at position i fired, every
\* later row is tested against the new active layer and no earlier row is
\* tested again; with rows [(default, A, assign_layer work), (work, A, phrase P)]
\* and active layer default, one keydown(A) fires both rows and leaves the
\* active layer work.
C2_MidDispatchSwitch ==
  op = "eventMatch" =>
    LET m == lastMatch
        rows == table.binding
    IN /\ Len(m.seen) = Len(rows)
       /\ \A i \in 1..Len(rows) :
            (i \in FiredAt(m)) <=>
              /\ rows[i].layer = LayerBefore(rows, m.ev, m.layer0, i)
              /\ BindingRow_eventMatch(rows[i], m.ev)
       /\ \A k \in 1..(Len(m.trig) - 1) : m.trig[k] < m.trig[k + 1]
       /\ (/\ rows = <<SwitchRow, WorkRow>>
           /\ m.layer0 = PyStr("default")
           /\ m.ev = KeyA("down"))
          => (m.trig = <<1, 2>> /\ table.layer = PyStr("work"))

C2_Witness ==
  /\ op = "eventMatch"
  /\ table.binding = <<SwitchRow, WorkRow>>
  /\ lastMatch.layer0 = PyStr("default")
  /\ lastMatch.ev = KeyA("down")
  /\ lastMatch.ans = <<SwitchRow, WorkRow>>
  /\ table.layer = PyStr("work")

\* C3: a row whose layer differs from the active layer at the moment it is
\* tested is not fired: its trigger is not called and it is not in the result,
\* even when its pattern matches the event.
C3_LayerVisibility ==
  op = "eventMatch" =>
    LET m == lastMatch
        rows == table.binding
    IN /\ Len(m.seen) = Len(rows)
       /\ \A i \in 1..Len(rows) :
            rows[i].layer # m.seen[i] => i \notin FiredAt(m)
       /\ \A k \in 1..Len(m.ans) :
            \E i \in 1..Len(rows) : m.ans[k] = rows[i] /\ rows[i].layer = m.seen[i]
       /\ Len(m.sink) <= Len(m.trig)

\* a work-layer row whose pattern matches is passed over while the active
\* layer is default, in a scan that fires another row
C3_Witness ==
  /\ op = "eventMatch"
  /\ lastMatch.trig # <<>>
  /\ \E i \in 1..Len(table.binding) :
       /\ table.binding[i].layer = PyStr("work")
       /\ lastMatch.seen[i] = PyStr("default")
       /\ BindingRow_eventMatch(table.binding[i], lastMatch.ev)
       /\ i \notin FiredAt(lastMatch)

\* the fired rows of the scan m that are assign_layer rows, by place in m.trig
AssignFired(m, rows) ==
  {k \in 1..Len(m.trig) : rows[m.trig[k]].trigger_type = PyStr("assign_layer")}

SinkFlag(r) ==
  CASE r.trigger_type = PyStr("phrase") -> "-p"
    [] r.trigger_type = PyStr("script") -> "-s"
    [] r.trigger_type = PyStr("folder") -> "-f"
    [] OTHER -> "none"

IsSinkRow(r) == r.trigger_type # PyStr("assign_layer")

SetMax(S) == CHOOSE x \in S : \A y \in S : y <= x

\* C4: the active layer changes only in a step where an assign_layer row of the
\* table fired, and becomes that row's trigger value (of the last such row of
\* the scan); a scan that fires no assign_layer row leaves it unchanged; the
\* sink is called once for each phrase, script or folder row fired, in order,
\* and never for an assign_layer row.
C4_LayerFrame ==
  [][ /\ (table'.layer # table.layer =>
            /\ op' = "eventMatch"
            /\ AssignFired(lastMatch', table.binding) # {}
            /\ LET k == SetMax(AssignFired(lastMatch', table.binding))
               IN table'.layer = table.binding[lastMatch'.trig[k]].trigger_data)
      /\ (op' = "eventMatch" =>
            LET m == lastMatch'
                calls == SelectSeq(m.ans, IsSinkRow)
            IN /\ (AssignFired(m, table.binding) = {} => table'.layer = table.layer)
               /\ Len(m.sink) = Len(calls)
               /\ \A k \in 1..Len(calls) :
                    m.sink[k] = <<"autokey-run", SinkFlag(calls[k]),
                                  calls[k].trigger_data>>)
    ]_vars

\* an event fired one assign_layer row: the layer changed and the sink was not
\* called
C4_Witness ==
  /\ op = "eventMatch"
  /\ table.layer # lastMatch.layer0
  /\ Len(lastMatch.trig) = 1
  /\ lastMatch.sink = <<>>

-----------------------------------------------------------------------------
(* Properties of persistence *)

\* C5: the active layer of a table is "default" right after the table is
\* created and right after every load by rCsv, a reload of a table object whose
\* layer an assign_layer row had switched included.
C5_DefaultAfterLoad ==
  op \in {"init", "load", "rCsv"} => table.layer = PyStr("default")

\* a table as the claim of the round trip takes it: the identity captured from
\* a device, every row a keydown row with a key name or a scandown row with a
\* key name or an integer scan code, the other fields strings
ValidRow(r) ==
  /\ r.layer.t = "str" /\ r.trigger_type.t = "str" /\ r.trigger_data.t = "str"
  /\ \/ r.event_type = PyStr("keydown") /\ r.event_data.t = "str"
     \/ r.event_type = PyStr("scandown") /\ r.event_data.t \in {"str", "int"}

ValidTable(t) ==
  /\ t.search.version.t = "str" /\ t.search.search_type.t = "str"
  /\ t.search.name.t = "str" /\ t.search.phys.t = "str"
  /\ \A i \in 1..Len(t.binding) : ValidRow(t.binding[i])

\* C6: for every valid table, scandown rows holding an integer scan code
\* included, writing it with wCsv and reading the file back with rCsv gives a
\* table whose identity and rows equal the original's, field for field and in
\* the same order.
C6_RoundTrip ==
  (op = "roundtrip_test" /\ ValidTable(table)) =>
    /\ readback.t.search = table.search
    /\ readback.t.binding = table.binding

-----------------------------------------------------------------------------
(* Properties of disambig *)

\* the name the rule of disambiguation asks for: want when it is free, else
\* want-k for the lowest k >= 2 whose name is free
FreeName(want, taken) ==
  IF want \notin taken THEN want
  ELSE LET free == {k \in 2..(Cardinality(taken) + 2) :
                      (want \o "-" \o IntStr(k)) \notin taken}
           k == CHOOSE x \in free : \A y \in free : x <= y
       IN want \o "-" \o IntStr(k)

\* C7: for every wanted name and every collection of existing names, names
\* unrelated to the wanted one included, disambig returns the wanted name when
\* it is not among the existing names, and else the wanted name with the
\* suffix -k of the lowest k >= 2 that is free.
C7_Disambig ==
  op = "disambig" =>
    /\ dis.err = ""
    /\ dis.name = FreeName(dis.want, SeqSet(dis.have))

-----------------------------------------------------------------------------
(* Properties of BindingRow.eventMatch *)

-----------------------------------------------------------------------------
(* Properties of DeviceSearch.get *)

\* the address live ends with the last "/"-separated segment of stored: some
\* suffix of stored holds no "/", starts stored or follows a "/", and is a
\* suffix of live
EndsWithLastSegment(live, stored) ==
  \E k \in 0..Len(stored) :
    LET seg == SubSeq(stored, k + 1, Len(stored))
    IN /\ k = 0 \/ SubSeq(stored, k, k) = "/"
       /\ \A j \in 1..Len(seg) : SubSeq(seg, j, j) # "/"
       /\ \E m \in 0..Len(live) : SubSeq(live, m + 1, Len(live)) = seg

\* the predicate of the mode of the identity d, on the live device n
Qualifies(d, n) ==
  CASE d.search_type = PyStr("name") ->
         n.name = d.name.s /\ EndsWithLastSegment(n.phys, d.phys.s)
    [] d.search_type = PyStr("phys") -> n.phys = d.phys.s
    [] OTHER -> n.name = d.name.s /\ n.phys = d.phys.s

GetExample ==
  [version |-> PyStr("version-1"), search_type |-> PyStr("name"),
   name |-> PyStr("Foo"), phys |-> PyStr("x/usb1/1-2:1.0")]

\* C11: get returns the first device, in enumeration order, that satisfies the
\* predicate of the mode (name: equal name and an address ending with the last
\* segment of the stored address; phys: equal address; both: equal name and
\* address), and None when no device does; Foo stored at .../usb1/1-2:1.0
\* resolves to the live Foo whose address ends in usb1/1-2:1.0 and not to the
\* live Foo at usb1/1-3:1.0.
C11_GetFirstMatch ==
  op = "get" =>
    LET d == got.search
        ok == {i \in 1..Len(all_devices) : Qualifies(d, all_devices[i])}
    IN /\ got.err = ""
       /\ got.idx = 0 <=> ok = {}
       /\ got.idx # 0 => (got.idx \in ok /\ \A j \in ok : got.idx <= j)
       /\ (d = GetExample /\ Len(all_devices) > 0) =>
            /\ all_devices[1] = InputDevice("Foo", "usb1/1-3:1.0") => got.idx # 1
            /\ all_devices[1] = InputDevice("Foo", "/dev/input/event3 usb1/1-2:1.0")
                 => got.idx = 1

\* Foo at usb1/1-3:1.0 is passed over and the Foo enumerated after it, whose
\* address ends in usb1/1-2:1.0, is returned
C11_Witness ==
  /\ op = "get"
  /\ got.search = GetExample
  /\ all_devices = <<InputDevice("Foo", "usb1/1-3:1.0"),
                     InputDevice("Foo", "/dev/input/event3 usb1/1-2:1.0")>>
  /\ got.idx = 2

-----------------------------------------------------------------------------
(* Properties of the process *)

\* the tables whose device is not among the live devices
Unresolved == {k \in 1..Len(loaded_devices) : Resolve(loaded_devices[k]).idx = 0}

\* the tables that read an event in the run
Dispatched == {trace[k][2] : k \in {j \in 1..Len(trace) : trace[j][1] = "match"}}

\* C12: a table whose device is not among the live devices does not make the
\* entry to the run loop fail: no exception leaves menus because of it, the
\* table is never grabbed, drained or polled, and the run loop is reached.
C12_UnresolvedNonFatal ==
  Unresolved # {} =>
    /\ cleanup.raised # "AttributeError"
    /\ \A k \in 1..Len(trace) : trace[k][2] \notin Unresolved

\* C13: a failure of autokey-run, a nonzero exit or a program that cannot be
\* started, never leaves BindingRow.trigger: no exception of the sink reaches
\* the run loop, and every phrase, script or folder row fired has made its
\* call of the sink.
C13_TriggerFailureSwallowed ==
  autokey \in {"fail", "missing"} =>
    /\ cleanup.raised # "FileNotFoundError"
    /\ \A k \in 1..Len(trace) :
         trace[k][1] = "match" =>
           LET rows == loaded_devices[trace[k][2]].binding
               trig == trace[k][5]
           IN Len(trace[k][6])
                = Cardinality({j \in 1..Len(trig) :
                                 rows[trig[j]].trigger_type # PyStr("assign_layer")})

Released == \A i \in 1..Len(all_devices) :
              ~all_devices[i].grabbed /\ all_devices[i].closed

\* C16: when the process ends after menus returned, was interrupted or
\* failed, every live device has been released and its handle closed.  (No
\* interrupt arrives while the except block or cleanup_devices is executing.)
C16_ReleasedAtExit ==
  (pc = "exit" /\ ~cleanup.cut) => Released

\* Ctrl+C in the run loop, with a device grabbed, and the process has ended
C16_Witness ==
  /\ pc = "exit"
  /\ ~cleanup.cut
  /\ cleanup.raised = "KeyboardInterrupt"
  /\ \E k \in 1..Len(trace) : trace[k][1] = "match"
  /\ Released

\* C17: cleanup_devices runs exactly once in a run of the process, whatever
\* the exit path and wherever the interrupt arrives: it is called once and
\* that call runs to its end.
C17_CleanupOnce ==
  pc = "exit" => (cleanup.calls = 1 /\ cleanup.done = 1)

-----------------------------------------------------------------------------
(* Properties of the loads *)

IsShort(row) ==
  /\ Len(row) > 0
  /\ \/ row[1] = "binding" /\ Len(row) < 6
     \/ row[1] = "device" /\ Len(row) < 5

\* a file with a binding row of fewer than 6 fields or a device row of fewer
\* than 5
Malformed(rows) == \E k \in 1..Len(rows) : IsShort(rows[k])

\* a file that holds a table: a device row, and no row cut short
HoldsTable(rows) ==
  /\ ~Malformed(rows)
  /\ \E k \in 1..Len(rows) : Len(rows[k]) > 0 /\ rows[k][1] = "device"

\* C14: load_config over a directory of files that hold a table and of
\* malformed files does not abort and returns exactly one table for each file
\* that holds a table (one malformed and two valid files give two tables).
C14_MalformedIsolation ==
  (/\ op = "load_config"
   /\ \A n \in DOMAIN deviceDir : HoldsTable(deviceDir[n]) \/ Malformed(deviceDir[n]))
  => /\ loadres.err = ""
     /\ Len(loaded_devices)
          = Cardinality({n \in DOMAIN deviceDir : HoldsTable(deviceDir[n])})

IsKnown(row) == Len(row) > 0 /\ row[1] \in {"device", "binding"}

\* C15: rows whose leading token is neither device nor binding are ignored:
\* loading a file raises nothing and gives the table that the file without
\* those rows gives; an empty file and a file of such rows only load as a
\* table with no binding.  (Stated for files with no row cut short.)
C15_UnknownRowsIgnored ==
  (op = "rCsv_file" /\ ~Malformed(loadres.rows)) =>
    LET kept == SelectSeq(loadres.rows, IsKnown)
        rd == DeviceTable_rCsv(DeviceTable_init, kept, loadres.t.filename)
    IN /\ loadres.err = ""
       /\ rd.err = ""
       /\ loadres.t = rd.t
       /\ (kept = <<>> => loadres.t.binding = <<>>)

-----------------------------------------------------------------------------
(* Properties of the edit session *)

\* C18: whatever adds and removes were made in an edit session, Cancel leaves
\* the table with the row sequence it had when the session started (same rows,
\* same order) and OK leaves it with the sequence as edited.
C18_EditRollback ==
  [][ /\ (session.ch = "main" /\ session'.ch = "cancel")
           => table'.binding = session.start
      /\ (session.ch = "main" /\ session'.ch = "save")
           => table'.binding = table.binding
      /\ (session.ch = "main" /\ session'.ch = "main"
             /\ Len(session'.ops) > Len(session.ops))
           => /\ session'.start = session.start
              /\ table'.binding # table.binding
    ]_vars

\* a session that removed a row and added one, then cancelled
C18_Witness ==
  /\ session.ch = "cancel"
  /\ session.start # <<>>
  /\ \E i, j \in 1..Len(session.ops) :
       session.ops[i][1] = "remove" /\ session.ops[j][1] = "add"
  /\ table.binding = session.start

-----------------------------------------------------------------------------
(* Properties of the menu *)

\* C19: after any adds, edits and removes of devices, "Quit without saving"
\* leaves the devices directory with the files, and the contents, it had when
\* the session started.
C19_QuitWritesNothing ==
  op = "cancelquit" =>
    /\ ~saved.called
    /\ deviceDir = StartDir(loadres.files)

\* a quit with a removal pending, a table edited and a table added
C19_Witness ==
  /\ op = "cancelquit"
  /\ ch = "done"
  /\ files_to_destroy # <<>>
  /\ \E k \in 1..Len(loaded_devices) :
       loaded_devices[k].filename \notin DOMAIN deviceDir
  /\ \E k \in 1..Len(loaded_devices) :
       /\ loaded_devices[k].filename \in DOMAIN deviceDir
       /\ DeviceTable_wCsv(loaded_devices[k]) # deviceDir[loaded_devices[k].filename]
  /\ deviceDir = StartDir(loadres.files)

-----------------------------------------------------------------------------
(* Properties of save_config *)

Filenames(devices) == [k \in 1..Len(devices) |-> devices[k].filename]

Distinct(seq) == \A i, j \in 1..Len(seq) : i # j => seq[i] # seq[j]

LogNames(log, kind) == {log[k][2] : k \in {j \in 1..Len(log) : log[j][1] = kind}}

\* C8: a name collision on save is never an error: whatever the names of the
\* tables of the batch, save_config does not raise and leaves the names of the
\* batch pairwise distinct.  (Stated for a save with nothing to delete, where
\* only the names of the batch play a part.)
C8_CollisionNeverError ==
  (saved.called /\ saved.pending = <<>>) =>
    /\ saved.err = ""
    /\ Distinct(Filenames(loaded_devices))

\* C9: when save_config returns, every table of the saved batch has its file
\* in the directory, whatever removes and adds came before.
C9_SavedTablesSurvive ==
  (saved.called /\ saved.err = "") =>
    \A k \in 1..Len(loaded_devices) : loaded_devices[k].filename \in DOMAIN deviceDir

\* C10: save_config deletes no file before every table is written, and when
\* it returns the files deleted are exactly those of the names that were
\* pending and are not the name of a table written in the batch, and none of
\* them is left.
C10_WriteThenDelete ==
  (saved.called /\ saved.err = "") =>
    /\ \A i, j \in 1..Len(saved.log) :
         (saved.log[i][1] = "delete" /\ saved.log[j][1] = "write") => j < i
    /\ LogNames(saved.log, "delete")
         = SeqSet(saved.pending) \ LogNames(saved.log, "write")
    /\ \A n \in SeqSet(saved.pending) \ LogNames(saved.log, "write") :
         n \notin DOMAIN deviceDir


-----------------------------------------------------------------------------
(* Properties of the run loop *)

\* C21: on entry to the run loop the events a device has buffered are
\* discarded before the device is grabbed: no event is drained from a device
\* that the run has already grabbed.
C21_DrainBeforeGrab ==
  \A k \in 1..Len(trace) :
    trace[k][1] = "drain" =>
      ~\E j \in 1..(k - 1) : trace[j][1] = "grab" /\ trace[j][3] = trace[k][3]


\* the rows of a dispatch that call the sink, in the order they fired
SinkRows(rows, trig) ==
  SelectSeq(trig, LAMBDA j : rows[j].trigger_type # PyStr("assign_layer"))

\* C22: dispatch is sequential.  A step of the run loop that passes an event
\* to eventMatch reads that event and nothing else: it is the oldest event
\* its device has buffered, the other buffers are left as they are, and it is
\* recorded after everything read before.  The rows it fires are fired in
\* stored order, and each call of the sink they make is made, in that order,
\* within that step: none is left for after the next read.
C22_SequentialDispatch ==
  [][ (Len(trace') = Len(trace) + 1 /\ trace'[Len(trace')][1] = "match") =>
        LET x == trace'[Len(trace')]
            rows == loaded_devices[x[2]].binding
            calls == SinkRows(rows, x[5])
        IN /\ SubSeq(trace', 1, Len(trace)) = trace
           /\ all_devices[x[3]].queue # <<>>
           /\ x[4] = Head(all_devices[x[3]].queue)
           /\ all_devices'[x[3]].queue = Tail(all_devices[x[3]].queue)
           /\ \A i \in 1..Len(all_devices) :
                i # x[3] => all_devices'[i].queue = all_devices[i].queue
           /\ \A i, j \in 1..Len(x[5]) : i < j => x[5][i] < x[5][j]
           /\ autokey # "missing" =>
                /\ Len(x[6]) = Len(calls)
                /\ \A j \in 1..Len(calls) : x[6][j][3] = rows[calls[j]].trigger_data
           /\ autokey = "missing" => (x[6] = <<>> /\ Len(calls) <= 1) ]_vars

\* two events buffered by one device were dispatched one after the other, the
\* first firing two rows that each called the sink
C22_Witness ==
  /\ Len(trace) >= 3
  /\ \E k \in 1..(Len(trace) - 1) :
       /\ trace[k][1] = "match" /\ trace[k + 1][1] = "match"
       /\ trace[k][3] = trace[k + 1][3]
       /\ trace[k][4] = InputEvent(1, 30, 1)
       /\ trace[k + 1][4] = InputEvent(1, 30, 0)
       /\ Len(trace[k][5]) = 2
       /\ Len(trace[k][6]) = 2
  /\ pc = "run"


-----------------------------------------------------------------------------
(* Properties of the capture flows *)

\* C23: when detectDevice or BindingRow.shell has given control back to its
\* caller, by returning or by an exception or interrupt that left it, no
\* device is grabbed: the flow has released every device it grabbed.
C23_TransientGrab ==
  (capture.flow # "none" /\ pc \in {"menus", "except"}) =>
    \A i \in 1..Len(all_devices) : ~all_devices[i].grabbed


-----------------------------------------------------------------------------
(* Properties of dispatch across persistence *)

\* a row as the binding wizard fills it in: a keydown row holding a key name
\* or a scandown row holding the integer scan code
WizardRow(r) ==
  /\ r.layer.t = "str" /\ r.trigger_type.t = "str" /\ r.trigger_data.t = "str"
  /\ \/ r.event_type = PyStr("keydown") /\ r.event_data.t = "str"
     \/ r.event_type = PyStr("scandown") /\ r.event_data.t = "int"

-----------------------------------------------------------------------------
(* Properties of the edit session: remove *)

\* C25: a remove in an edit session takes out the row at the position the
\* user chose and leaves the other rows where they were, in their order.
C25_RemoveAtPosition ==
  [][ (/\ Len(session'.ops) = Len(session.ops) + 1
       /\ session'.ops[Len(session'.ops)][1] = "remove") =>
        LET i == session'.ops[Len(session'.ops)][2]
            b == table.binding
        IN table'.binding =
             [k \in 1..(Len(b) - 1) |-> IF k < i THEN b[k] ELSE b[k + 1]] ]_vars


-----------------------------------------------------------------------------
(* Properties of the deletion list *)

\* C26: save_config never tries to delete a file that is not there: whatever
\* adds and removes came before, the save does not end in FileNotFoundError,
\* and a save that ends well has deleted each name once.
C26_DeleteOnlyExisting ==
  saved.called =>
    /\ saved.err # "FileNotFoundError"
    /\ saved.err = "" =>
         \A i, j \in 1..Len(saved.log) :
           (saved.log[i] = saved.log[j] /\ saved.log[i][1] = "delete") => i = j


-----------------------------------------------------------------------------
(* Properties of the tables of a run *)

\* the events waiting in the buffers of the live devices
Waiting == Buffered(all_devices, 1)

\* C27: tables are isolated in the run loop.  A step of the loop that takes
\* an event out of a buffer passes it to eventMatch once, of the table at
\* hand, whose device is the one the event was read from; the rows fired are
\* rows of that table that match the event in the layer they were tested in;
\* and every other table is left as it was, its active layer included.
C27_TableIsolation ==
  [][ (pc = "run" /\ Waiting' < Waiting) =>
        /\ Waiting' = Waiting - 1
        /\ Len(trace') = Len(trace) + 1
        /\ LET x == trace'[Len(trace')]
               k == x[2]
               t == loaded_devices[k]
           IN /\ x[1] = "match"
              /\ k = cur
              /\ x[3] = Resolve(t).idx
              /\ all_devices[x[3]].queue # <<>>
              /\ x[4] = Head(all_devices[x[3]].queue)
              /\ \A i \in 1..Len(x[5]) :
                   /\ x[5][i] \in 1..Len(t.binding)
                   /\ BindingRow_eventMatch(t.binding[x[5][i]], categorize(x[4]))
              /\ \A j \in 1..Len(loaded_devices) :
                   j # k => loaded_devices'[j] = loaded_devices[j]
              /\ loaded_devices'[k].binding = t.binding ]_vars

\* both tables have dispatched an event of their own device; the second
\* switched its layer and the first is still in the default layer
C27_Witness ==
  /\ pc = "run"
  /\ Len(loaded_devices) = 2
  /\ loaded_devices[1].layer = PyStr("default")
  /\ loaded_devices[2].layer = PyStr("work")
  /\ \E i, j \in 1..Len(trace) :
       /\ trace[i][1] = "match" /\ trace[i][2] = 1 /\ trace[i][3] = 1
       /\ Len(trace[i][5]) = 2
       /\ trace[j][1] = "match" /\ trace[j][2] = 2 /\ trace[j][3] = 2
       /\ Len(trace[j][5]) >= 1

====
